---- MODULE Spec2Model ----
(***************************************************************************)
(* git-cleanup-merged: the GitCleanupTool run (index.js).  The event loop  *)
(* runs one continuation at a time, so every action below is the code      *)
(* between two suspension points (await) of one async function.            *)
(***************************************************************************)
EXTENDS Integers, Sequences, FiniteSets, TLC

(* ------------------------------------------------------------------ *)
(* Bounds of the model                                                 *)
(* ------------------------------------------------------------------ *)
\* feature branches in the listing of a whole run (Spec)
MaxListing == 2
\* tracked branches handed to checkBranches alone (SpecCheck)
MaxBranches == 6
\* candidates handed to deleteBranches alone (SpecDelete)
MaxCandidates == 4
\* lines of the standard output handed to a method called on its own (SpecCall)
MaxLines == 3
\* tracked branches of a run whose status queries go through execSync (SpecQuery)
MaxQueried == 3
\* the longest argument list of the runs that vary the command line
MaxArgs == 3
\* lines of a listing that repeats names
MaxRepeated == 3

(* ------------------------------------------------------------------ *)
(* Program constants                                                   *)
(* ------------------------------------------------------------------ *)
CONCURRENCY_LIMIT == 5
DELETE_CONCURRENCY == 3
\* execCommand's default timeout and the timeout of a status query, in ms
DEFAULT_TIMEOUT == 30000
PR_STATUS_TIMEOUT == 10000
\* this.frames.length
FRAMES == 10

(* ------------------------------------------------------------------ *)
(* JavaScript values: a string or null.  The timeout sentinel is the   *)
(* string "__TIMEOUT__" itself.                                        *)
(* ------------------------------------------------------------------ *)
Null == <<"null">>
Str(s) == <<"string", s>>
TIMEOUT == Str("__TIMEOUT__")
\* a multi-line command output, given as its lines
Text(lines) == <<"string", "lines", lines>>
\* a rejected promise / thrown exception, as the outcome of an awaited call
Throws == <<"throws">>

Min(a, b) == IF a < b THEN a ELSE b

(* ------------------------------------------------------------------ *)
(* The repository: branch names and the for-each-ref listing           *)
(* ------------------------------------------------------------------ *)
FeatureNames == <<"b1", "b2", "b3", "b4", "b5", "b6", "b7", "b8">>

\* one line of `git for-each-ref --format="%(refname:short) %(upstream:short)"`,
\* as its characters: a word stands for a run of non-blank characters
TrackedLine(name) == <<name, " ", "origin/x">>
UntrackedLine(name) == <<name, " ">>

\* String.prototype.trim on a line
RECURSIVE TrimStart(_)
TrimStart(line) ==
    IF line # <<>> /\ Head(line) = " " THEN TrimStart(Tail(line)) ELSE line

RECURSIVE TrimEnd(_)
TrimEnd(line) ==
    IF line # <<>> /\ line[Len(line)] = " "
    THEN TrimEnd(SubSeq(line, 1, Len(line) - 1))
    ELSE line

Trim(line) == TrimEnd(TrimStart(line))

(* ------------------------------------------------------------------ *)
(* execCommand                                                         *)
(* ------------------------------------------------------------------ *)
\* what execSync does with a command: it returns the standard output it
\* captured, given as its lines (a line is its blanks and words), it returns
\* null when the output was not captured, or it throws an error that carries a
\* code, a signal and a message
Ok(stdout) == <<"ok", stdout>>
OkNothing == <<"ok">>
Err(code, signal, message) == <<"error", code, signal, message>>
\* the TypeError of null.trim()
TypeErr == Err("", "", "Cannot read properties of null")
\* a promise rejected with an error
Thrown(error) == <<"throws", error>>

\* String.prototype.trim on a text of several lines: the blank lines and the
\* blanks at both ends go, the inside stays
RECURSIVE TrimTextStart(_)
TrimTextStart(lines) ==
    IF lines = <<>> THEN <<>>
    ELSE IF TrimStart(Head(lines)) = <<>> THEN TrimTextStart(Tail(lines))
    ELSE <<TrimStart(Head(lines))>> \o Tail(lines)

RECURSIVE TrimTextEnd(_)
TrimTextEnd(lines) ==
    IF lines = <<>> THEN <<>>
    ELSE IF TrimEnd(lines[Len(lines)]) = <<>>
         THEN TrimTextEnd(SubSeq(lines, 1, Len(lines) - 1))
    ELSE SubSeq(lines, 1, Len(lines) - 1) \o <<TrimEnd(lines[Len(lines)])>>

TrimText(lines) == TrimTextEnd(TrimTextStart(lines))

\* the string value of a text: the text of one word is that word, so a text
\* that spells the sentinel is the sentinel
StringOf(lines) ==
    IF lines = <<>> THEN Str("")
    ELSE IF Len(lines) = 1 /\ Len(lines[1]) = 1 THEN Str(lines[1][1])
    ELSE Text(lines)

\* the lines of a string value
LinesOf(text) ==
    IF Len(text) = 3 THEN text[3]
    ELSE IF text[2] = "" THEN <<>>
    ELSE <<<<text[2]>>>>

\* Faulty variant: only the error code marks a timeout
execCommand_CodeOnly(outcome, silent) ==
    IF outcome[1] = "ok"
    THEN IF Len(outcome) = 1
         THEN IF ~silent THEN Thrown(TypeErr) ELSE Null
         ELSE StringOf(TrimText(outcome[2]))
    ELSE IF ~silent THEN Thrown(outcome)
    ELSE IF outcome[2] = "ETIMEDOUT" THEN TIMEOUT
    ELSE Null

\* Faulty variant: the timeout is looked at before the silent option
execCommand_TimeoutFirst(outcome, silent) ==
    IF outcome[1] = "ok"
    THEN IF Len(outcome) = 1
         THEN IF ~silent THEN Thrown(TypeErr) ELSE Null
         ELSE StringOf(TrimText(outcome[2]))
    ELSE IF outcome[2] = "ETIMEDOUT" \/ outcome[3] = "SIGTERM" THEN TIMEOUT
    ELSE IF ~silent THEN Thrown(outcome)
    ELSE Null

\* execCommand(command, {silent}) on what execSync did: result.trim(), or in
\* the catch block the error again (not silent), the sentinel (code ETIMEDOUT
\* or signal SIGTERM), or null
execCommand(outcome, silent) ==
    IF outcome[1] = "ok"
    THEN IF Len(outcome) = 1
         THEN IF ~silent THEN Thrown(TypeErr) ELSE Null
         ELSE StringOf(TrimText(outcome[2]))
    ELSE IF ~silent THEN Thrown(outcome)
    ELSE IF outcome[2] = "ETIMEDOUT" \/ outcome[3] = "SIGTERM" THEN TIMEOUT
    ELSE Null

(* ------------------------------------------------------------------ *)
(* getBranches                                                         *)
(* ------------------------------------------------------------------ *)
\* line.split(/\s+/) of a trimmed, non-empty line: the words between blank runs
RECURSIVE SplitWs(_)
SplitWs(line) ==
    IF line = <<>> THEN <<>>
    ELSE IF Head(line) = " " THEN SplitWs(Tail(line))
    ELSE <<Head(line)>> \o SplitWs(Tail(line))

\* Faulty variant: master is not in the list of protected names
IsProtected_NoMaster(branchName, current) == branchName \in {"main", current}

\* Faulty variant: the current branch is not excluded
IsProtected_NoCurrent(branchName, current) == branchName \in {"main", "master"}

\* ["main", "master", this.currentBranch].includes(branchName)
IsProtected(branchName, current) == branchName \in {"main", "master", current}

\* the loop of getBranches over the listing lines
RECURSIVE BranchLoop(_, _, _)
BranchLoop(branchLines, mode, current) ==
    IF branchLines = <<>> THEN <<>>
    ELSE LET parts == SplitWs(Head(branchLines))
             branchName == parts[1]
             upstream == Tail(parts)
             isTracked == upstream # <<>>
             rest == BranchLoop(Tail(branchLines), mode, current)
         IN  IF IsProtected(branchName, current) THEN rest
             ELSE IF mode = "tracked" /\ isTracked THEN <<branchName>> \o rest
             ELSE IF mode = "untracked" /\ ~isTracked THEN <<branchName>> \o rest
             ELSE IF mode = "all" THEN <<branchName>> \o rest
             ELSE rest

\* Faulty variant: the sentinel is not checked, so it is read as a listing
getBranches_NoTimeoutCheck(listed, mode, current) ==
    IF listed = Null \/ listed = Throws THEN <<>>
    ELSE LET text == LinesOf(listed)
             branchLines ==
                 [i \in 1..Len(SelectSeq(text, LAMBDA l : Trim(l) # <<>>)) |->
                     Trim(SelectSeq(text, LAMBDA l : Trim(l) # <<>>)[i])]
         IN  BranchLoop(branchLines, mode, current)

\* the spinner.error of getBranches, if any
getBranchesReports(listed, mode) ==
    IF listed = TIMEOUT THEN <<<<"error", "Failed to get branches (timeout)", mode>>>>
    ELSE IF listed = Null \/ listed = Throws
         THEN <<<<"error", "Failed to get branches", mode>>>>
    ELSE <<>>

\* getBranches(mode) on what the awaited execCommand came back with for the
\* listing: null, the sentinel and a rejection give [], a text gives the
\* filtered names
getBranches(listed, mode, current) ==
    IF listed = Null \/ listed = TIMEOUT \/ listed = Throws THEN <<>>
    ELSE LET text == LinesOf(listed)
             branchLines ==
                 [i \in 1..Len(SelectSeq(text, LAMBDA l : Trim(l) # <<>>)) |->
                     Trim(SelectSeq(text, LAMBDA l : Trim(l) # <<>>)[i])]
         IN  BranchLoop(branchLines, mode, current)

(* ------------------------------------------------------------------ *)
(* Pieces of checkBranches                                             *)
(* ------------------------------------------------------------------ *)
\* Faulty variant: no return for an empty list
checkBranchesPath_NoEarlyReturn(totalBranches) == "check"

\* checkBranches: `if (branches.length === 0) { ...; return; }`
checkBranchesPath(totalBranches) ==
    IF totalBranches = 0 THEN "nothing" ELSE "check"

\* Faulty variant: the cursor is read but not advanced
getNextBranchIndex_NoIncrement(cursor, totalBranches) ==
    IF cursor >= totalBranches
    THEN [ret |-> -1, next |-> cursor]
    ELSE [ret |-> cursor, next |-> cursor]

\* getNextBranchIndex: the value returned (-1 for null) and the cursor after
getNextBranchIndex(cursor, totalBranches) ==
    IF cursor >= totalBranches
    THEN [ret |-> -1, next |-> cursor]
    ELSE [ret |-> cursor, next |-> cursor + 1]

\* Faulty variant: the catch block of getPRStatus passes the rejection on
\* the timeout execSync is called with: options.timeout || 30000, under the
\* spread of the caller's options (0 stands for a timeout that is falsy)
Deadline(options) ==
    LET timeout == IF "timeout" \in DOMAIN options /\ options.timeout # 0
                   THEN options.timeout ELSE DEFAULT_TIMEOUT
    IN  IF "timeout" \in DOMAIN options THEN options.timeout ELSE timeout

\* a status query issued with no timeout of its own
getPRStatusOptions_Default == [silent |-> TRUE]

\* the options getPRStatus hands to execCommand
getPRStatusOptions == [silent |-> TRUE, timeout |-> PR_STATUS_TIMEOUT]

getPRStatus_Rethrow(result) ==
    IF result[1] = "throws" THEN Throws ELSE result

\* getPRStatus on what the awaited execCommand came back with: the value, or
\* null in the catch block
getPRStatus(result) ==
    IF result[1] = "throws" THEN Null ELSE result

\* Faulty variant: the timeout sentinel has no case of its own
Classify_TimeoutNoPR(prStatus) ==
    IF prStatus = Str("MERGED") THEN [icon |-> "check", label |-> "Merged", del |-> TRUE]
    ELSE IF prStatus = Str("CLOSED") THEN [icon |-> "lock", label |-> "Closed", del |-> TRUE]
    ELSE IF prStatus = Str("OPEN") THEN [icon |-> "hourglass", label |-> "Open", del |-> FALSE]
    ELSE [icon |-> "cross", label |-> "No PR", del |-> FALSE]

\* Faulty variant: the OPEN case also adds the branch to the delete list
Classify_OpenDeletes(prStatus) ==
    IF prStatus = Str("MERGED") THEN [icon |-> "check", label |-> "Merged", del |-> TRUE]
    ELSE IF prStatus = Str("CLOSED") THEN [icon |-> "lock", label |-> "Closed", del |-> TRUE]
    ELSE IF prStatus = Str("OPEN") THEN [icon |-> "hourglass", label |-> "Open", del |-> TRUE]
    ELSE IF prStatus = TIMEOUT THEN [icon |-> "question", label |-> "Timeout", del |-> FALSE]
    ELSE [icon |-> "cross", label |-> "No PR", del |-> FALSE]

\* the switch of processBranch: icon, label and whether addBranchToDelete runs
Classify(prStatus) ==
    IF prStatus = Str("MERGED") THEN [icon |-> "check", label |-> "Merged", del |-> TRUE]
    ELSE IF prStatus = Str("CLOSED") THEN [icon |-> "lock", label |-> "Closed", del |-> TRUE]
    ELSE IF prStatus = Str("OPEN") THEN [icon |-> "hourglass", label |-> "Open", del |-> FALSE]
    ELSE IF prStatus = TIMEOUT THEN [icon |-> "question", label |-> "Timeout", del |-> FALSE]
    ELSE [icon |-> "cross", label |-> "No PR", del |-> FALSE]

\* the record processBranch stores
BranchResult(branch, prStatus) ==
    [branch |-> branch, icon |-> Classify(prStatus).icon, label |-> Classify(prStatus).label]

\* the record the catch block of fluidWorker stores
ErrorResult(branch) ==
    [branch |-> branch, icon |-> "warning", label |-> "Error"]

\* Map.prototype.set and Map.prototype.get; a missing key reads undefined
MapSet(m, k, v) == [x \in (DOMAIN m) \cup {k} |-> IF x = k THEN v ELSE m[x]]
Undefined == [branch |-> "undefined", icon |-> "undefined", label |-> "undefined"]
MapGet(m, k) == IF k \in DOMAIN m THEN m[k] ELSE Undefined

\* Faulty variant: the catch block swallows the error without storing a record
StoreResult_NoErrorRecord(m, branch, prStatus) ==
    IF prStatus = Throws
    THEN m
    ELSE MapSet(m, branch, BranchResult(branch, prStatus))

\* what one settled processBranch leaves in resultsMap: its own record, or the
\* record of the catch block when it threw
StoreResult(m, branch, prStatus) ==
    IF prStatus = Throws
    THEN MapSet(m, branch, ErrorResult(branch))
    ELSE MapSet(m, branch, BranchResult(branch, prStatus))

\* Faulty variant: the catch block puts the branch on the delete list
StoreToDelete_OnError(list, branch, prStatus) ==
    IF prStatus = Throws \/ Classify(prStatus).del THEN Append(list, branch) ELSE list

\* what one settled processBranch leaves in branchesToDeleteSync
StoreToDelete(list, branch, prStatus) ==
    IF prStatus # Throws /\ Classify(prStatus).del THEN Append(list, branch) ELSE list

\* Faulty variant: the catch block breaks out of the loop
fluidWorkerNext_BreakOnError(prStatus, cursor, totalBranches) ==
    IF prStatus = Throws
    THEN [ret |-> -1, next |-> cursor]
    ELSE getNextBranchIndex(cursor, totalBranches)

\* the turn of the while loop after a settled processBranch: the catch block
\* neither breaks nor rethrows, so the next index is claimed after either outcome
fluidWorkerNext(prStatus, cursor, totalBranches) ==
    getNextBranchIndex(cursor, totalBranches)

\* branches.map((branch) => resultsMap.get(branch))
Reconstruct(input, m) == [i \in 1..Len(input) |-> MapGet(m, input[i])]

\* Faulty variant: always CONCURRENCY_LIMIT workers
StatusWorkerCount_NoMin(totalBranches) == CONCURRENCY_LIMIT

\* Array(Math.min(CONCURRENCY_LIMIT, totalBranches))
StatusWorkerCount(totalBranches) == Min(CONCURRENCY_LIMIT, totalBranches)

(* ------------------------------------------------------------------ *)
(* Pieces of deleteBranches                                            *)
(* ------------------------------------------------------------------ *)
\* Faulty variant: the cursor is advanced before the read
getNextDeleteBranch_PreIncrement(cursor, copy) ==
    IF cursor >= Len(copy)
    THEN [some |-> FALSE, branch |-> "", next |-> cursor]
    ELSE [some |-> TRUE,
          branch |-> IF cursor + 2 \in DOMAIN copy THEN copy[cursor + 2] ELSE "undefined",
          next |-> cursor + 1]

\* getNextDeleteBranch: the cursor after, and whether a branch was returned
getNextDeleteBranch(cursor, copy) ==
    IF cursor >= Len(copy)
    THEN [some |-> FALSE, branch |-> "", next |-> cursor]
    ELSE [some |-> TRUE, branch |-> copy[cursor + 1], next |-> cursor + 1]

\* Faulty variant: only null is checked, so the timeout sentinel passes for success
DeleteOutcome_TimeoutSucceeds(result) ==
    IF result = Throws THEN "failed"
    ELSE IF result = Null THEN "failed"
    ELSE "deleted"

\* the try/catch of deletionWorker on the outcome of `git branch -d`
DeleteOutcome(result) ==
    IF result = Throws THEN "failed"
    ELSE IF result = TIMEOUT THEN "timeout"
    ELSE IF result = Null THEN "failed"
    ELSE "deleted"

\* the line deletionWorker logs for an outcome
DeleteMessage(outcome, branch) ==
    IF outcome = "timeout" THEN <<"Failed to delete branch (timeout)", branch>>
    ELSE IF outcome = "failed" THEN <<"Failed to delete branch", branch>>
    ELSE <<"Deleted branch", branch>>

\* Faulty variant: no return in dry-run mode
deleteBranchesPath_NoDryRunReturn(totalToDelete, dry) ==
    IF totalToDelete = 0 THEN "nothing" ELSE "ask"

\* the early returns of deleteBranches before the prompt
deleteBranchesPath(totalToDelete, dry) ==
    IF totalToDelete = 0 THEN "nothing"
    ELSE IF dry THEN "dryRun"
    ELSE "ask"

\* Faulty variant: always DELETE_CONCURRENCY workers
DeletionWorkerCount_NoMin(totalToDelete) == DELETE_CONCURRENCY

\* Array(Math.min(DELETE_CONCURRENCY, totalToDelete))
DeletionWorkerCount(totalToDelete) == Min(DELETE_CONCURRENCY, totalToDelete)

\* askConfirmation: answer.toLowerCase() === "y" || answer.toLowerCase() === "yes"
ToLowerCase(answer) ==
    CASE answer = "Y" -> "y"
      [] answer = "YES" -> "yes"
      [] answer = "Yes" -> "yes"
      [] answer = "N" -> "n"
      [] OTHER -> answer

\* Faulty variant: everything but a no is taken for a yes
askConfirmation_DefaultYes(answer) ==
    ToLowerCase(answer) # "n" /\ ToLowerCase(answer) # "no"

askConfirmation(answer) == ToLowerCase(answer) = "y" \/ ToLowerCase(answer) = "yes"

(* ------------------------------------------------------------------ *)
(* parseArguments                                                      *)
(* ------------------------------------------------------------------ *)
\* an argument of the command line: an option (a word that starts with "-")
\* or a path, relative to the working directory or absolute
Opt(word) == <<"option", word>>
Dir(kind, path) == <<"path", kind, path>>

\* the directories that exist: the one the tool is started in and a repository
\* below it
StartDir == <<"work">>
ExistingDirs == {StartDir, StartDir \o <<"repo">>}

\* process.chdir(dir) from the directory from: the directory reached, or
\* <<"throws">> when there is none
chdir(from, dir) ==
    LET target == IF dir[2] = "absolute" THEN dir[3] ELSE from \o dir[3]
    IN  IF target \in ExistingDirs THEN target ELSE Throws

\* the tool's flags after parseArguments, what it returned ("undefined" off
\* the end of the loop, "0" after the version or the help text, "exit" when
\* it ended the process with status 1), and what it printed
Parsed(tool, ret, out) == [tool |-> tool, ret |-> ret, out |-> out]

\* the switch that gives --help no early return: it goes on with the next
\* argument
RECURSIVE parseLoop_HelpGoesOn(_, _)
parseLoop_HelpGoesOn(rest, tool) ==
    IF rest = << >> THEN Parsed(tool, "undefined", << >>)
    ELSE LET arg == Head(rest)
         IN  IF arg \in {Opt("--dry-run"), Opt("-n")}
             THEN parseLoop_HelpGoesOn(Tail(rest), [tool EXCEPT !.dryRun = TRUE])
             ELSE IF arg \in {Opt("--verbose"), Opt("-v")}
             THEN parseLoop_HelpGoesOn(Tail(rest), [tool EXCEPT !.verbose = TRUE])
             ELSE IF arg \in {Opt("--untracked-only"), Opt("-u")}
             THEN parseLoop_HelpGoesOn(Tail(rest), [tool EXCEPT !.untrackedOnly = TRUE])
             ELSE IF arg \in {Opt("--count"), Opt("-c")}
             THEN parseLoop_HelpGoesOn(Tail(rest), [tool EXCEPT !.countOnly = TRUE])
             ELSE IF arg \in {Opt("--version"), Opt("-V")}
             THEN Parsed(tool, "0", <<<<"log", "version">>>>)
             ELSE IF arg \in {Opt("--help"), Opt("-h")}
             THEN parseLoop_HelpGoesOn(Tail(rest), tool)
             ELSE Parsed(tool, "exit",
                         <<<<"error", "Unknown option", arg[2]>>,
                           <<"info", "Use --help for usage information.">>>>)

\* the switch whose --verbose case falls through into the --dry-run case
RECURSIVE parseLoop_VerboseIsDryRun(_, _)
parseLoop_VerboseIsDryRun(rest, tool) ==
    IF rest = << >> THEN Parsed(tool, "undefined", << >>)
    ELSE LET arg == Head(rest)
         IN  IF arg \in {Opt("--dry-run"), Opt("-n")}
             THEN parseLoop_VerboseIsDryRun(Tail(rest), [tool EXCEPT !.dryRun = TRUE])
             ELSE IF arg \in {Opt("--verbose"), Opt("-v")}
             THEN parseLoop_VerboseIsDryRun(Tail(rest),
                      [tool EXCEPT !.verbose = TRUE, !.dryRun = TRUE])
             ELSE IF arg \in {Opt("--untracked-only"), Opt("-u")}
             THEN parseLoop_VerboseIsDryRun(Tail(rest), [tool EXCEPT !.untrackedOnly = TRUE])
             ELSE IF arg \in {Opt("--count"), Opt("-c")}
             THEN parseLoop_VerboseIsDryRun(Tail(rest), [tool EXCEPT !.countOnly = TRUE])
             ELSE IF arg \in {Opt("--version"), Opt("-V")}
             THEN Parsed(tool, "0", <<<<"log", "version">>>>)
             ELSE IF arg \in {Opt("--help"), Opt("-h")}
             THEN Parsed(tool, "0", <<<<"log", "help">>>>)
             ELSE Parsed(tool, "exit",
                         <<<<"error", "Unknown option", arg[2]>>,
                           <<"info", "Use --help for usage information.">>>>)

\* the for loop over the arguments with its switch
RECURSIVE parseLoop(_, _)
parseLoop(rest, tool) ==
    IF rest = << >> THEN Parsed(tool, "undefined", << >>)
    ELSE LET arg == Head(rest)
         IN  IF arg \in {Opt("--dry-run"), Opt("-n")}
             THEN parseLoop(Tail(rest), [tool EXCEPT !.dryRun = TRUE])
             ELSE IF arg \in {Opt("--verbose"), Opt("-v")}
             THEN parseLoop(Tail(rest), [tool EXCEPT !.verbose = TRUE])
             ELSE IF arg \in {Opt("--untracked-only"), Opt("-u")}
             THEN parseLoop(Tail(rest), [tool EXCEPT !.untrackedOnly = TRUE])
             ELSE IF arg \in {Opt("--count"), Opt("-c")}
             THEN parseLoop(Tail(rest), [tool EXCEPT !.countOnly = TRUE])
             ELSE IF arg \in {Opt("--version"), Opt("-V")}
             THEN Parsed(tool, "0", <<<<"log", "version">>>>)
             ELSE IF arg \in {Opt("--help"), Opt("-h")}
             THEN Parsed(tool, "0", <<<<"log", "help">>>>)
             ELSE Parsed(tool, "exit",
                         <<<<"error", "Unknown option", arg[2]>>,
                           <<"info", "Use --help for usage information.">>>>)

\* parseArguments on the tool whose flags and working directory are given: the
\* directory argument first, then the loop over the rest
parseArguments(argv, tool) ==
    IF argv # << >> /\ Head(argv)[1] = "path"
    THEN LET reached == chdir(tool.cwd, Head(argv))
         IN  IF reached = Throws
             THEN Parsed(tool, "exit",
                         <<<<"error", "Failed to change directory to", Head(argv)[2]>>>>)
             ELSE parseLoop(Tail(argv), [tool EXCEPT !.cwd = reached])
    ELSE parseLoop(argv, tool)

(* ------------------------------------------------------------------ *)
(* Spinner                                                             *)
(* ------------------------------------------------------------------ *)
\* the spinner as constructed: its fields, the number of interval timers that
\* are set and not cleared, and whether the terminal shows the cursor
NewSpinner ==
    [message |-> "Loading...", current |-> 0, interval |-> "null",
     isSpinning |-> FALSE, timers |-> 0, cursor |-> "shown"]

\* clearInterval(handle): the timer behind the handle, if it is one, is gone
clearInterval(timers, handle) == IF handle = "timer" THEN timers - 1 ELSE timers

\* a start without the guard: a timer is set on every call
Spinner_start_NoGuard(sp) ==
    [sp EXCEPT !.isSpinning = TRUE, !.cursor = "hidden",
               !.interval = "timer", !.timers = @ + 1]

\* start(): nothing while spinning; else hide the cursor and set the timer
Spinner_start(sp) ==
    IF sp.isSpinning THEN sp
    ELSE [sp EXCEPT !.isSpinning = TRUE, !.cursor = "hidden",
                    !.interval = "timer", !.timers = @ + 1]

\* stop(): nothing while stopped; else clear the timer and the line, show
\* the cursor
Spinner_stop(sp) ==
    IF ~sp.isSpinning THEN sp
    ELSE [sp EXCEPT !.isSpinning = FALSE, !.timers = clearInterval(@, sp.interval),
                    !.interval = "null", !.cursor = "shown"]

Spinner_updateMessage(sp, message) == [sp EXCEPT !.message = message]

\* a success that prints its line over a running spinner
Spinner_success_NoStop(sp) == sp

\* success, error, warning, info: stop(), then a line on the console
Spinner_success(sp) == Spinner_stop(sp)
Spinner_error(sp) == Spinner_stop(sp)
Spinner_warning(sp) == Spinner_stop(sp)
Spinner_info(sp) == Spinner_stop(sp)

\* debug: nothing unless verbose; else stop(), then a line on the console
Spinner_debug(sp, isVerbose) == IF ~isVerbose THEN sp ELSE Spinner_stop(sp)

\* log: a line on the console, the spinner as it is
Spinner_log(sp) == sp

\* the callback of the interval timer: a frame is written and the next one
\* chosen
Spinner_tick(sp) == [sp EXCEPT !.current = (@ + 1) % FRAMES]

\* what an operation writes to the terminal
Writes(op, sp, isVerbose) ==
    LET stopped == IF sp.isSpinning THEN <<"clear line", "show cursor">> ELSE << >>
    IN  IF op = "start" THEN (IF sp.isSpinning THEN << >> ELSE <<"hide cursor">>)
        ELSE IF op = "stop" THEN stopped
        ELSE IF op = "updateMessage" THEN << >>
        ELSE IF op \in {"success", "error", "warning", "info"} THEN stopped \o <<"line">>
        ELSE IF op = "debug" THEN (IF isVerbose THEN stopped \o <<"line">> ELSE << >>)
        ELSE IF op = "log" THEN <<"line">>
        ELSE <<"frame">>

\* the spinner after the given reports, each made with the method it names
\* (the count summary goes to the console directly)
RECURSIVE Reported(_, _)
Reported(sp, out) ==
    IF out = << >> THEN sp
    ELSE LET method == Head(out)[1]
             next == IF method = "error" THEN Spinner_error(sp)
                     ELSE IF method = "warning" THEN Spinner_warning(sp)
                     ELSE IF method = "info" THEN Spinner_info(sp)
                     ELSE IF method = "success" THEN Spinner_success(sp)
                     ELSE IF method = "log" THEN Spinner_log(sp)
                     ELSE sp
         IN  Reported(next, Tail(out))

(* ------------------------------------------------------------------ *)
(* State                                                               *)
(* ------------------------------------------------------------------ *)
VARIABLES
    pc,                   \* where run() stands
    args,                 \* process.argv.slice(2), the arguments in order
    cwd,                  \* process.cwd(), as the path from the root
    repo,                 \* the lines `git for-each-ref` prints in this repository
    head,                 \* what `git branch --show-current` prints
    dryRun,               \* this.dryRun
    verbose,              \* this.verbose
    untrackedOnly,        \* this.untrackedOnly
    countOnly,            \* this.countOnly
    currentBranch,        \* this.currentBranch
    branchesToDelete,     \* this.branchesToDelete
    prResults,            \* this.prResults
    exitCode,             \* process.exit code, -1 while none
    branches,             \* checkBranches: branches (checkUntrackedBranches: untrackedBranches)
    nextIndex,            \* checkBranches: nextIndex (checkUntrackedBranches: i)
    resultsMap,           \* checkBranches: resultsMap
    branchesToDeleteSync, \* checkBranches: branchesToDeleteSync
    wpc,                  \* status workers: "idle" (not created), "await", "done"
    widx,                 \* status workers: branchIndex held, -1 if none
    confirmed,            \* deleteBranches: confirmed (FALSE before the prompt)
    branchesToDeleteCopy, \* deleteBranches: branchesToDeleteCopy
    nextDeleteIndex,      \* deleteBranches: nextDeleteIndex
    deletionCounter,      \* deleteBranches: deletionCounter.value
    deletedCount,         \* deleteBranches: deletedCount
    failedBranchesSync,   \* deleteBranches: failedBranchesSync
    dpc,                  \* deletion workers: "idle", "await", "sleep", "done"
    dbranch,              \* deletion workers: the branch held, "" if none
    handed,               \* history: the indices getNextBranchIndex returned, in order
    settled,              \* history: branchIndex -> what its processBranch settled with
    deleteSettled,        \* history: branch -> what its `git branch -d` settled with
    deleteLog,            \* history: branch -> the line deletionWorker logged for it
    answered,             \* history: "yes" if y or yes (any case) was typed, "no" if
                          \* anything else was, "none" before the answer
    cmds,                 \* history: external commands issued, in order
    prompts,              \* history: number of confirmation prompts shown
    reports,              \* history: spinner reports of outcomes, in order
    listed,               \* history: what the awaited listing command came back with
    queried,              \* history: branchIndex -> what execSync did with its status query
    setup,                \* history: what each setup command came back with, in order
    counted,              \* countBranches: the lists got so far (tracked, then untracked)
    spinner,              \* this.spinner, with the timers set and the cursor
    callArgs,             \* a method called on its own: its name and arguments
    callResult            \* a method called on its own: what it returned

vars == <<pc, args, cwd, repo, head, dryRun, verbose, untrackedOnly, countOnly,
          currentBranch,
          branchesToDelete, prResults, exitCode, branches, nextIndex, resultsMap,
          branchesToDeleteSync, wpc, widx, confirmed, branchesToDeleteCopy,
          nextDeleteIndex, deletionCounter, deletedCount, failedBranchesSync,
          dpc, dbranch, handed, settled, deleteSettled, deleteLog, answered, cmds, prompts,
          reports, listed, queried, setup, counted, spinner, callArgs, callResult>>

runVars == <<args, cwd, repo, head, dryRun, verbose, untrackedOnly, countOnly,
             currentBranch, exitCode>>
startVars == <<setup, counted>>
callVars == <<callArgs, callResult>>
checkVars == <<branches, nextIndex, resultsMap, branchesToDeleteSync, wpc, widx,
               handed, settled>>
deleteVars == <<confirmed, branchesToDeleteCopy, nextDeleteIndex, deletionCounter,
                deletedCount, failedBranchesSync, dpc, dbranch, prompts,
                deleteSettled, deleteLog, answered>>

StatusWorkers == 1..CONCURRENCY_LIMIT
DeletionWorkers == 1..DELETE_CONCURRENCY

\* values `gh pr view --json state --jq .state` can come back with through
\* getPRStatus, and a rejection as the repository's tests inject it
PRStatuses == {Str("MERGED"), Str("CLOSED"), Str("OPEN"), Str("DRAFT"), TIMEOUT, Null}
PROutcomes == PRStatuses \cup {Throws}

\* values the awaited `git branch -d` can come back with
DeleteResults == {Str("Deleted branch"), Str(""), TIMEOUT, Null, Throws}

\* errors execSync throws: the timeout (the child is sent SIGTERM), a command
\* ended by SIGTERM, a command that failed
ExecErrors == {Err("ETIMEDOUT", "SIGTERM", "timed out"),
               Err("", "SIGTERM", "terminated"),
               Err("", "", "Command failed")}

\* what execSync can do with the listing command in a repository
ListingOutcomes(lines) == {Ok(lines), Err("ETIMEDOUT", "SIGTERM", "timed out"),
                           Err("", "", "Command failed")}

\* values a silent setup command can come back with
SetupResults == {Str("ok"), TIMEOUT, Null}

\* answered typed at the prompt
Answers == {"y", "Y", "yes", "YES", "Yes", "n", "N", "no", "", "yep"}
\* the answers the prompt's contract takes for a yes
Affirmative == {"y", "Y", "yes", "YES", "Yes", "yEs", "yeS", "YEs", "yES", "YeS"}

\* the argument lists of a clean-up run: main mode or untracked-only, with or
\* without --dry-run
CleanupArgs == {<< >>, <<Opt("--dry-run")>>, <<Opt("--untracked-only")>>,
                <<Opt("--untracked-only"), Opt("--dry-run")>>}

\* argument lists of the other kinds: count-only, verbose, help and version,
\* an unknown option, a directory (absolute, relative, missing)
OtherArgs == {<<Opt("--count")>>, <<Opt("-c"), Opt("-u")>>, <<Opt("--verbose")>>,
              <<Opt("-u"), Opt("-v")>>,
              <<Opt("--help")>>, <<Opt("-n"), Opt("-V")>>,
              <<Opt("--bogus"), Opt("--help")>>,
              <<Dir("absolute", StartDir \o <<"repo">>), Opt("-u")>>,
              <<Dir("relative", <<"repo">>)>>,
              <<Dir("relative", <<"gone">>)>>}

NamesOf(lines) == {lines[i][1] : i \in 1..Len(lines)}

\* the listing of a repository with the first n feature names, each tracked or
\* not, followed by a tracked main and a local master; git lists every ref once,
\* sorted by name
ListingOf(n, tracked) ==
    [i \in 1..n |-> IF tracked[i] THEN TrackedLine(FeatureNames[i])
                    ELSE UntrackedLine(FeatureNames[i])]
    \o <<TrackedLine("main"), UntrackedLine("master")>>

Repos(maxN) ==
    UNION {{ListingOf(n, t) : t \in [1..n -> BOOLEAN]} : n \in 0..maxN}

\* the branch checked out: main, the first feature branch, or none (detached)
Heads(lines) == {"main", ""} \cup ({"b1"} \cap NamesOf(lines))

\* the fields and locals as the constructor and the declarations leave them
Constructed ==
    /\ dryRun = FALSE
    /\ verbose = FALSE
    /\ untrackedOnly = FALSE
    /\ countOnly = FALSE
    /\ branchesToDelete = <<>>
    /\ prResults = <<>>
    /\ exitCode = -1
    /\ branches = <<>>
    /\ nextIndex = 0
    /\ resultsMap = <<>>
    /\ branchesToDeleteSync = <<>>
    /\ wpc = [w \in StatusWorkers |-> "idle"]
    /\ widx = [w \in StatusWorkers |-> -1]
    /\ confirmed = FALSE
    /\ branchesToDeleteCopy = <<>>
    /\ nextDeleteIndex = 0
    /\ deletionCounter = 0
    /\ deletedCount = 0
    /\ failedBranchesSync = <<>>
    /\ dpc = [w \in DeletionWorkers |-> "idle"]
    /\ dbranch = [w \in DeletionWorkers |-> ""]
    /\ handed = <<>>
    /\ settled = <<>>
    /\ deleteSettled = <<>>
    /\ deleteLog = <<>>
    /\ answered = "none"
    /\ cmds = <<>>
    /\ prompts = 0
    /\ reports = <<>>
    /\ listed = <<>>
    /\ queried = <<>>
    /\ setup = <<>>
    /\ counted = <<>>
    /\ spinner = NewSpinner

\* the tool as constructed, started with one of the argument sets in one of the
\* repositories
InitRun(argSets, repos, heads) ==
    /\ pc = "start"
    /\ args \in argSets
    /\ cwd = StartDir
    /\ repo \in repos
    /\ head \in Heads(repo) \cap heads
    /\ currentBranch = ""
    /\ callArgs = <<>>
    /\ callResult = <<>>
    /\ Constructed

\* any flags, in a repository of up to MaxListing feature branches
Init == InitRun(CleanupArgs \cup OtherArgs, Repos(MaxListing), {"main", "b1", ""})

(* ------------------------------------------------------------------ *)
(* run(): arguments, dependencies, current branch                      *)
(* ------------------------------------------------------------------ *)
\* the flags and the working directory parseArguments reads and writes
Tool ==
    [dryRun |-> dryRun, verbose |-> verbose, untrackedOnly |-> untrackedOnly,
     countOnly |-> countOnly, cwd |-> cwd]

\* the reports the step makes
NewReports == SubSeq(reports', Len(reports) + 1, Len(reports'))

\* bin.js: the tool is constructed and parses the arguments; a number returned
\* is the exit status, undefined starts run()
Entry ==
    /\ pc = "start"
    /\ LET parsed == parseArguments(args, Tool)
       IN  /\ dryRun' = parsed.tool.dryRun
           /\ verbose' = parsed.tool.verbose
           /\ untrackedOnly' = parsed.tool.untrackedOnly
           /\ countOnly' = parsed.tool.countOnly
           /\ cwd' = parsed.tool.cwd
           /\ reports' = reports \o parsed.out
           /\ IF parsed.ret = "exit" THEN exitCode' = 1 /\ pc' = "exit"
              ELSE IF parsed.ret = "0" THEN exitCode' = 0 /\ pc' = "exit"
              ELSE exitCode' = exitCode /\ pc' = "run"
    /\ UNCHANGED <<args, repo, head, currentBranch, branchesToDelete, prResults, cmds>>
    /\ UNCHANGED checkVars /\ UNCHANGED deleteVars
    /\ UNCHANGED <<listed, queried>> /\ UNCHANGED callVars /\ UNCHANGED startVars
    /\ spinner' = Reported(spinner, NewReports)

\* run() up to checkDependencies: the line that names the directory, then
\* parseArguments once more; 0 returns from run(), the process ends normally
ParseArguments ==
    /\ pc = "run"
    /\ LET parsed == parseArguments(args, Tool)
       IN  /\ dryRun' = parsed.tool.dryRun
           /\ verbose' = parsed.tool.verbose
           /\ untrackedOnly' = parsed.tool.untrackedOnly
           /\ countOnly' = parsed.tool.countOnly
           /\ cwd' = parsed.tool.cwd
           /\ reports' = Append(reports, <<"log", "Scanning repository", cwd>>) \o parsed.out
           /\ IF parsed.ret = "exit" THEN exitCode' = 1 /\ pc' = "exit"
              ELSE IF parsed.ret = "0" THEN exitCode' = exitCode /\ pc' = "end"
              ELSE exitCode' = exitCode /\ pc' = "checkDependencies"
    /\ UNCHANGED <<args, repo, head, currentBranch, branchesToDelete, prResults, cmds>>
    /\ UNCHANGED checkVars /\ UNCHANGED deleteVars
    /\ UNCHANGED <<listed, queried>> /\ UNCHANGED callVars /\ UNCHANGED startVars
    /\ spinner' = Reported(spinner, NewReports)

\* a setup command that came back with null or with the timeout sentinel
SetupFailed_NullOnly(result) == result = Null

SetupFailed(result) == result = Null \/ result = TIMEOUT

\* the GitHub CLI checks are skipped in untracked-only and in count-only mode
NeedsGitHub_IgnoresCount(untracked, count) == ~untracked

NeedsGitHub(untracked, count) == ~untracked /\ ~count

\* checkDependencies: the repository check, then (unless the mode needs no
\* GitHub) the two gh checks; a null or timed-out check reports and exits with
\* status 1
CheckDependencies ==
    /\ pc = "checkDependencies"
    /\ \E gitDir \in SetupResults, ghVersion \in SetupResults, authStatus \in SetupResults :
         LET gitCmd == <<<<"git rev-parse">>>>
             ghCmd == <<<<"gh --version">>>>
             authCmd == <<<<"gh auth status">>>>
             started == Spinner_start(Spinner_updateMessage(spinner, "Checking dependencies..."))
             forGh == Spinner_updateMessage(started, "Checking GitHub CLI...")
             forAuth == Spinner_updateMessage(forGh, "Verifying GitHub authentication...")
         IN  IF SetupFailed(gitDir)
             THEN /\ cmds' = cmds \o gitCmd
                  /\ setup' = setup \o <<gitDir>>
                  /\ reports' = Append(reports, <<"error", "git repository check">>)
                  /\ spinner' = Spinner_error(started)
                  /\ exitCode' = 1 /\ pc' = "exit"
             ELSE IF ~NeedsGitHub(untrackedOnly, countOnly)
             THEN /\ cmds' = cmds \o gitCmd
                  /\ setup' = setup \o <<gitDir>>
                  /\ reports' = Append(reports, <<"success", "Dependencies checked">>)
                  /\ spinner' = Spinner_success(started)
                  /\ exitCode' = exitCode /\ pc' = "getCurrentBranch"
             ELSE IF SetupFailed(ghVersion)
             THEN /\ cmds' = cmds \o gitCmd \o ghCmd
                  /\ setup' = setup \o <<gitDir, ghVersion>>
                  /\ reports' = Append(reports, <<"error", "GitHub CLI check">>)
                  /\ spinner' = Spinner_error(forGh)
                  /\ exitCode' = 1 /\ pc' = "exit"
             ELSE IF SetupFailed(authStatus)
             THEN /\ cmds' = cmds \o gitCmd \o ghCmd \o authCmd
                  /\ setup' = setup \o <<gitDir, ghVersion, authStatus>>
                  /\ reports' = Append(reports, <<"error", "GitHub authentication check">>)
                  /\ spinner' = Spinner_error(forAuth)
                  /\ exitCode' = 1 /\ pc' = "exit"
             ELSE /\ cmds' = cmds \o gitCmd \o ghCmd \o authCmd
                  /\ setup' = setup \o <<gitDir, ghVersion, authStatus>>
                  /\ reports' = Append(reports, <<"success", "Dependencies checked">>)
                  /\ spinner' = Spinner_success(forAuth)
                  /\ exitCode' = exitCode /\ pc' = "getCurrentBranch"
    /\ UNCHANGED <<args, cwd, repo, head, dryRun, verbose, untrackedOnly, countOnly,
                   currentBranch, branchesToDelete, prResults>>
    /\ UNCHANGED checkVars /\ UNCHANGED deleteVars
    /\ UNCHANGED <<listed, queried, counted>> /\ UNCHANGED callVars

\* a mode switch without the count-only return
runPath_CountIgnored(count, untracked) ==
    IF untracked THEN "checkUntrackedBranches" ELSE "checkBranches"

\* the mode switch of run(): count-only first, then untracked-only
runPath(count, untracked) ==
    IF count THEN "countBranches"
    ELSE IF untracked THEN "checkUntrackedBranches"
    ELSE "checkBranches"

\* getCurrentBranch, then the mode switch of run()
GetCurrentBranch ==
    /\ pc = "getCurrentBranch"
    /\ \E branchResult \in {Str(head), TIMEOUT, Null} :
         /\ cmds' = Append(cmds, <<"git branch --show-current">>)
         /\ setup' = Append(setup, branchResult)
         /\ IF SetupFailed(branchResult)
            THEN /\ reports' = Append(reports, <<"error", "Failed to get current branch">>)
                 /\ exitCode' = 1 /\ pc' = "exit"
                 /\ currentBranch' = currentBranch
            ELSE /\ currentBranch' = branchResult[2]
                 /\ reports' = Append(reports, <<"success", "Current branch">>)
                 /\ exitCode' = exitCode
                 /\ pc' = runPath(countOnly, untrackedOnly)
    /\ UNCHANGED <<args, cwd, repo, head, dryRun, verbose, untrackedOnly, countOnly,
                   branchesToDelete, prResults>>
    /\ UNCHANGED checkVars /\ UNCHANGED deleteVars
    /\ UNCHANGED <<listed, queried, counted>> /\ UNCHANGED callVars
    /\ spinner' = Reported(Spinner_start(Spinner_updateMessage(spinner, "Getting current branch...")),
                         NewReports)

\* countBranches: one of its two listings, the second followed by the summary
CountListing(mode, last) ==
    \E outcome \in ListingOutcomes(repo) :
        LET got == execCommand(outcome, TRUE)
            found == Append(counted, getBranches(got, mode, currentBranch))
        IN  /\ listed' = got
            /\ counted' = found
            /\ cmds' = Append(cmds, <<"git for-each-ref">>)
            /\ reports' = reports \o getBranchesReports(got, mode) \o
                 (IF last
                  THEN <<<<"success", "Branch count complete">>,
                         <<"count", Len(found[1]) + Len(found[2]),
                           Len(found[1]), Len(found[2])>>>>
                  ELSE << >>)
            /\ spinner' = Reported(IF last THEN spinner
                                   ELSE Spinner_start(Spinner_updateMessage(
                                            spinner, "Counting branches...")),
                                   NewReports)

CountTracked ==
    /\ pc = "countBranches"
    /\ CountListing("tracked", FALSE)
    /\ pc' = "countUntracked"
    /\ UNCHANGED <<branchesToDelete, prResults, queried, setup>>
    /\ UNCHANGED runVars /\ UNCHANGED checkVars /\ UNCHANGED deleteVars
    /\ UNCHANGED callVars

\* the second listing, the summary, and the return from run()
CountUntracked ==
    /\ pc = "countUntracked"
    /\ CountListing("untracked", TRUE)
    /\ pc' = "counted"
    /\ UNCHANGED <<branchesToDelete, prResults, queried, setup>>
    /\ UNCHANGED runVars /\ UNCHANGED checkVars /\ UNCHANGED deleteVars
    /\ UNCHANGED callVars

(* ------------------------------------------------------------------ *)
(* checkBranches                                                       *)
(* ------------------------------------------------------------------ *)
\* branches[branchIndex]; an index past the end reads undefined
BranchAt(input, branchIndex) ==
    IF branchIndex + 1 \in DOMAIN input THEN input[branchIndex + 1] ELSE "undefined"

\* the top of the while loop of fluidWorker, up to the await of getPRStatus:
\* claim an index and issue its query, or leave the loop
FluidWorkerLoop(w, got, sp) ==
     /\ nextIndex' = got.next
        /\ IF got.ret = -1
           THEN /\ wpc' = [wpc EXCEPT ![w] = "done"]
                /\ widx' = [widx EXCEPT ![w] = -1]
                /\ handed' = handed
                /\ cmds' = cmds
                /\ spinner' = sp
           ELSE /\ wpc' = [wpc EXCEPT ![w] = "await"]
                /\ widx' = [widx EXCEPT ![w] = got.ret]
                /\ handed' = Append(handed, got.ret)
                /\ spinner' = Spinner_start(Spinner_updateMessage(sp, "Checking branch"))
                /\ cmds' = Append(cmds, <<"gh pr view", BranchAt(branches, got.ret),
                                           Deadline(getPRStatusOptions)>>)

\* checkBranches up to the creation of the workers: fetch the tracked branches,
\* return when there are none
CheckBranchesFetch ==
    /\ pc = "checkBranches"
    /\ \E outcome \in ListingOutcomes(repo) :
         LET got == execCommand(outcome, TRUE)
             tracked == getBranches(got, "tracked", currentBranch)
         IN  /\ listed' = got
             /\ branches' = tracked
             /\ IF checkBranchesPath(Len(tracked)) = "nothing"
                THEN /\ reports' = reports \o getBranchesReports(got, "tracked")
                                    \o <<<<"warning", "No tracked branches found to check.">>>>
                     /\ spinner' = Spinner_info(Reported(
                            Spinner_start(Spinner_updateMessage(
                                spinner, "Fetching tracked branches...")), NewReports))
                     /\ pc' = "deleteBranches"
                ELSE /\ reports' = reports \o getBranchesReports(got, "tracked")
                     /\ spinner' = Spinner_start(Spinner_updateMessage(Reported(
                            Spinner_start(Spinner_updateMessage(
                                spinner, "Fetching tracked branches...")), NewReports),
                            "Checking tracked branches against GitHub..."))
                     /\ pc' = IF StatusWorkerCount(Len(tracked)) = 0
                              THEN "awaitWorkers" ELSE "spawn"
    /\ nextIndex' = 0
    /\ resultsMap' = <<>>
    /\ branchesToDeleteSync' = <<>>
    /\ cmds' = Append(cmds, <<"git for-each-ref">>)
    /\ UNCHANGED <<wpc, widx, handed, settled, branchesToDelete, prResults>>
    /\ UNCHANGED runVars /\ UNCHANGED deleteVars
    /\ UNCHANGED queried /\ UNCHANGED callVars /\ UNCHANGED startVars

\* .map(() => fluidWorker()): the workers are created one after the other, each
\* running to its first await before the next is created
FluidWorkerStart(w) ==
    /\ pc = "spawn"
    /\ wpc[w] = "idle"
    /\ \A v \in StatusWorkers : v < w => wpc[v] # "idle"
    /\ w <= StatusWorkerCount(Len(branches))
    /\ FluidWorkerLoop(w, getNextBranchIndex(nextIndex, Len(branches)), spinner)
    /\ pc' = IF w = StatusWorkerCount(Len(branches)) THEN "awaitWorkers" ELSE "spawn"
    /\ UNCHANGED <<branches, resultsMap, branchesToDeleteSync, branchesToDelete,
                   prResults, reports, settled>>
    /\ UNCHANGED runVars /\ UNCHANGED deleteVars
    /\ UNCHANGED <<listed, queried>> /\ UNCHANGED callVars /\ UNCHANGED startVars

\* the spinner after a settled processBranch: in verbose mode the debug line
\* and the restart, or the debug line of the catch block
processBranchSpinner(sp, prStatus, isVerbose) ==
    IF prStatus = Throws THEN Spinner_debug(sp, isVerbose)
    ELSE IF isVerbose
         THEN Spinner_start(Spinner_updateMessage(Spinner_debug(sp, isVerbose),
                                                  "Checking branch"))
         ELSE sp

\* a worker's awaited processBranch settles: the rest of processBranch (or the
\* catch block), then the next turn of the loop
FluidWorkerSettled(w, prStatus) ==
    /\ pc = "awaitWorkers"
    /\ wpc[w] = "await"
    /\ LET branch == BranchAt(branches, widx[w])
       IN  /\ resultsMap' = StoreResult(resultsMap, branch, prStatus)
           /\ branchesToDeleteSync' = StoreToDelete(branchesToDeleteSync, branch, prStatus)
           /\ settled' = MapSet(settled, widx[w], prStatus)
           /\ FluidWorkerLoop(w, fluidWorkerNext(prStatus, nextIndex, Len(branches)),
                              processBranchSpinner(spinner, prStatus, verbose))
    /\ UNCHANGED <<pc, branches, branchesToDelete, prResults, reports, listed>>
    /\ UNCHANGED runVars /\ UNCHANGED deleteVars /\ UNCHANGED callVars /\ UNCHANGED startVars

\* getPRStatus came back with one of the given statuses (or rejected, as the
\* tests of checkBranches make it)
FluidWorkerSettles(w, outcomes) ==
    \E prStatus \in outcomes : FluidWorkerSettled(w, prStatus) /\ UNCHANGED queried

FluidWorkerResume(w) == FluidWorkerSettles(w, PROutcomes)

\* a promise that settles as soon as one worker has returned
PromiseAll_Race(workers) == \E w \in DOMAIN workers : workers[w] = "done"

\* Promise.all(workers) resolves once every worker created has returned
PromiseAll(workers) == \A w \in DOMAIN workers : workers[w] \in {"idle", "done"}

\* after Promise.all(workers): publish the results in input order
CheckBranchesFinish ==
    /\ pc = "awaitWorkers"
    /\ PromiseAll(wpc)
    /\ prResults' = Reconstruct(branches, resultsMap)
    /\ branchesToDelete' = branchesToDeleteSync
    /\ reports' = Append(reports, <<"success", "Finished checking tracked branches">>)
    /\ pc' = "deleteBranches"
    /\ UNCHANGED <<cmds>>
    /\ UNCHANGED checkVars /\ UNCHANGED runVars /\ UNCHANGED deleteVars
    /\ UNCHANGED <<listed, queried>> /\ UNCHANGED callVars /\ UNCHANGED startVars
    /\ spinner' = Reported(spinner, NewReports)

(* ------------------------------------------------------------------ *)
(* checkUntrackedBranches                                              *)
(* ------------------------------------------------------------------ *)
\* a listing that asks for every branch, tracked or not
getUntrackedBranches_All(listedText, current) == getBranches(listedText, "all", current)

\* getUntrackedBranches, on what the listing command came back with
getUntrackedBranches(listedText, current) == getBranches(listedText, "untracked", current)

\* checkUntrackedBranches up to its loop: the listing and the early return
CheckUntrackedFetch ==
    /\ pc = "checkUntrackedBranches"
    /\ \E outcome \in ListingOutcomes(repo) :
         LET got == execCommand(outcome, TRUE)
             untracked == getUntrackedBranches(got, currentBranch)
         IN  /\ listed' = got
             /\ branches' = untracked
             /\ IF Len(untracked) = 0
                THEN /\ reports' = reports \o getBranchesReports(got, "untracked")
                                    \o <<<<"warning", "No untracked local branches found.">>>>
                     /\ spinner' = Reported(Spinner_start(Spinner_updateMessage(
                            spinner, "Fetching untracked local branches...")), NewReports)
                     /\ pc' = "deleteBranches"
                ELSE /\ reports' = reports \o getBranchesReports(got, "untracked")
                     /\ spinner' = Spinner_updateMessage(Reported(
                            Spinner_start(Spinner_updateMessage(
                                spinner, "Fetching untracked local branches...")), NewReports),
                            "Found untracked local branches...")
                     /\ pc' = "untrackedLoop"
    /\ nextIndex' = 0
    /\ cmds' = Append(cmds, <<"git for-each-ref">>)
    /\ UNCHANGED <<resultsMap, branchesToDeleteSync, wpc, widx, handed, settled,
                   branchesToDelete, prResults>>
    /\ UNCHANGED runVars /\ UNCHANGED deleteVars
    /\ UNCHANGED queried /\ UNCHANGED callVars /\ UNCHANGED startVars

\* one turn of the for loop, up to its sleep; after the last turn the success report
UntrackedStep ==
    /\ pc = "untrackedLoop"
    /\ nextIndex < Len(branches)
    /\ LET branch == branches[nextIndex + 1]
       IN  /\ branchesToDelete' = Append(branchesToDelete, branch)
           /\ prResults' = Append(prResults,
                  [branch |-> branch, icon |-> "label", label |-> "Untracked"])
    /\ nextIndex' = nextIndex + 1
    /\ IF nextIndex + 1 = Len(branches)
       THEN /\ reports' = Append(reports, <<"success", "Finished processing untracked branches">>)
            /\ pc' = "deleteBranches"
       ELSE /\ reports' = reports
            /\ pc' = pc
    /\ LET named == Spinner_updateMessage(spinner, "Processing untracked branch")
       IN  spinner' = Reported(IF verbose
                               THEN Spinner_start(Spinner_updateMessage(
                                        Spinner_debug(named, verbose),
                                        "Processing untracked branch"))
                               ELSE named,
                               NewReports)
    /\ UNCHANGED <<branches, resultsMap, branchesToDeleteSync, wpc, widx, handed,
                   settled, cmds>>
    /\ UNCHANGED runVars /\ UNCHANGED deleteVars
    /\ UNCHANGED <<listed, queried>> /\ UNCHANGED callVars /\ UNCHANGED startVars

(* ------------------------------------------------------------------ *)
(* deleteBranches                                                      *)
(* ------------------------------------------------------------------ *)
\* the top of the while loop of deletionWorker, up to the await of execCommand
DeletionWorkerLoop(w, got) ==
     /\ nextDeleteIndex' = got.next
        /\ IF ~got.some
           THEN /\ dpc' = [dpc EXCEPT ![w] = "done"]
                /\ dbranch' = [dbranch EXCEPT ![w] = ""]
                /\ deletionCounter' = deletionCounter
                /\ cmds' = cmds
                /\ spinner' = spinner
           ELSE /\ dpc' = [dpc EXCEPT ![w] = "await"]
                /\ dbranch' = [dbranch EXCEPT ![w] = got.branch]
                /\ deletionCounter' = deletionCounter + 1
                /\ spinner' = Spinner_start(Spinner_updateMessage(spinner, "Deleting branch"))
                /\ cmds' = Append(cmds, <<"git branch -d", got.branch>>)

\* deleteBranches up to the prompt: nothing to delete, dry run, or ask
DeleteBranchesStart ==
    /\ pc = "deleteBranches"
    /\ IF deleteBranchesPath(Len(branchesToDelete), dryRun) = "nothing"
       THEN /\ reports' = Append(reports,
                   IF untrackedOnly
                   THEN <<"warning", "No untracked local branches found.">>
                   ELSE <<"warning", "No branches with merged or closed PRs found.">>)
            /\ prompts' = prompts
            /\ pc' = "done"
       ELSE IF deleteBranchesPath(Len(branchesToDelete), dryRun) = "dryRun"
       THEN /\ reports' = reports \o <<<<"warning", "DRY RUN">>,
                                       <<"info", "Run without --dry-run">>>>
            /\ prompts' = prompts
            /\ pc' = "done"
       ELSE /\ reports' = Append(reports, <<"error", "will be deleted">>)
            /\ prompts' = prompts + 1
            /\ pc' = "askConfirmation"
    /\ UNCHANGED <<confirmed, branchesToDeleteCopy, nextDeleteIndex, deletionCounter,
                   deletedCount, failedBranchesSync, dpc, dbranch, cmds,
                   deleteSettled, deleteLog, answered, branchesToDelete, prResults>>
    /\ UNCHANGED runVars /\ UNCHANGED checkVars
    /\ UNCHANGED <<listed, queried>> /\ UNCHANGED callVars /\ UNCHANGED startVars
    /\ spinner' = Reported(spinner, NewReports)

\* the prompt is answered: cancel, or set up the deletion batch
Confirm ==
    /\ pc = "askConfirmation"
    /\ \E answer \in Answers :
         /\ confirmed' = askConfirmation(answer)
         /\ answered' = IF answer \in Affirmative THEN "yes" ELSE "no"
         /\ IF confirmed'
            THEN /\ branchesToDeleteCopy' = branchesToDelete
                 /\ reports' = reports
                 /\ pc' = "spawnDelete"
            ELSE /\ branchesToDeleteCopy' = branchesToDeleteCopy
                 /\ reports' = Append(reports, <<"info", "Cancelled.">>)
                 /\ pc' = "done"
    /\ nextDeleteIndex' = 0
    /\ deletionCounter' = 0
    /\ deletedCount' = 0
    /\ failedBranchesSync' = <<>>
    /\ UNCHANGED <<dpc, dbranch, prompts, cmds, deleteSettled, deleteLog, branchesToDelete,
                   prResults>>
    /\ UNCHANGED runVars /\ UNCHANGED checkVars
    /\ UNCHANGED <<listed, queried>> /\ UNCHANGED callVars /\ UNCHANGED startVars
    /\ spinner' = Reported(spinner, NewReports)

\* the test `if (confirmed)` makes of a value: a boolean, a string, a number,
\* null or undefined
Truthy(value) ==
    IF value[1] = "boolean" THEN value[2]
    ELSE IF value[1] = "string" THEN value[2] # ""
    ELSE IF value[1] = "number" THEN value[2] # 0
    ELSE FALSE

\* what askConfirmation can resolve with when it is replaced, as the tests of
\* deleteBranches replace it
PromptResults == {<<"boolean", TRUE>>, <<"boolean", FALSE>>, Str("no"), Str(""),
                  <<"number", 0>>, Null, <<"undefined">>}

\* the prompt resolves with a value of any kind: `if (confirmed)` sets up the
\* deletion batch, else reports the cancellation
ConfirmResolves ==
    /\ pc = "askConfirmation"
    /\ \E result \in PromptResults :
         /\ confirmed' = result
         /\ IF Truthy(result)
            THEN /\ branchesToDeleteCopy' = branchesToDelete
                 /\ reports' = reports
                 /\ pc' = "spawnDelete"
            ELSE /\ branchesToDeleteCopy' = branchesToDeleteCopy
                 /\ reports' = Append(reports, <<"info", "Cancelled.">>)
                 /\ pc' = "done"
    /\ nextDeleteIndex' = 0
    /\ deletionCounter' = 0
    /\ deletedCount' = 0
    /\ failedBranchesSync' = <<>>
    /\ UNCHANGED <<dpc, dbranch, prompts, cmds, deleteSettled, deleteLog, answered,
                   branchesToDelete, prResults>>
    /\ UNCHANGED runVars /\ UNCHANGED checkVars
    /\ UNCHANGED <<listed, queried>> /\ UNCHANGED callVars /\ UNCHANGED startVars
    /\ spinner' = Reported(spinner, NewReports)

\* .map(() => deletionWorker()): each worker runs to its first await in turn
DeletionWorkerStart(w) ==
    /\ pc = "spawnDelete"
    /\ dpc[w] = "idle"
    /\ \A v \in DeletionWorkers : v < w => dpc[v] # "idle"
    /\ w <= DeletionWorkerCount(Len(branchesToDelete))
    /\ DeletionWorkerLoop(w, getNextDeleteBranch(nextDeleteIndex, branchesToDeleteCopy))
    /\ pc' = IF w = DeletionWorkerCount(Len(branchesToDelete))
             THEN "awaitDeletion" ELSE "spawnDelete"
    /\ UNCHANGED <<confirmed, branchesToDeleteCopy, deletedCount, failedBranchesSync,
                   prompts, reports, deleteSettled, deleteLog, answered, branchesToDelete,
                   prResults>>
    /\ UNCHANGED runVars /\ UNCHANGED checkVars
    /\ UNCHANGED <<listed, queried>> /\ UNCHANGED callVars /\ UNCHANGED startVars

\* the awaited `git branch -d` settles: tally and log, then sleep(50)
DeletionWorkerSettles(w, results) ==
    /\ pc = "awaitDeletion"
    /\ dpc[w] = "await"
    /\ \E result \in results :
         LET outcome == DeleteOutcome(result)
         IN  /\ IF outcome = "deleted"
                THEN /\ deletedCount' = deletedCount + 1
                     /\ failedBranchesSync' = failedBranchesSync
                ELSE /\ deletedCount' = deletedCount
                     /\ failedBranchesSync' = Append(failedBranchesSync, dbranch[w])
             /\ deleteLog' = MapSet(deleteLog, dbranch[w], DeleteMessage(outcome, dbranch[w]))
             /\ deleteSettled' = MapSet(deleteSettled, dbranch[w], result)
    /\ dpc' = [dpc EXCEPT ![w] = "sleep"]
    /\ UNCHANGED <<pc, confirmed, branchesToDeleteCopy, nextDeleteIndex, deletionCounter,
                   dbranch, prompts, cmds, answered, reports, branchesToDelete,
                   prResults>>
    /\ UNCHANGED runVars /\ UNCHANGED checkVars
    /\ UNCHANGED <<listed, queried>> /\ UNCHANGED callVars /\ UNCHANGED startVars
    /\ spinner' = Spinner_log(Spinner_stop(spinner))

DeletionWorkerResume(w) == DeletionWorkerSettles(w, DeleteResults)

\* sleep(50) is over: the next turn of the loop
DeletionWorkerWake(w) ==
    /\ pc = "awaitDeletion"
    /\ dpc[w] = "sleep"
    /\ DeletionWorkerLoop(w, getNextDeleteBranch(nextDeleteIndex, branchesToDeleteCopy))
    /\ UNCHANGED <<pc, confirmed, branchesToDeleteCopy, deletedCount, failedBranchesSync,
                   prompts, reports, deleteSettled, deleteLog, answered, branchesToDelete,
                   prResults>>
    /\ UNCHANGED runVars /\ UNCHANGED checkVars
    /\ UNCHANGED <<listed, queried>> /\ UNCHANGED callVars /\ UNCHANGED startVars

\* a final status that reports success whatever failed
FinalStatus_AlwaysSuccess(deleted, failed) ==
    <<<<"success", "Successfully deleted", deleted>>>>

\* the final status: the success line, or the warning with the two counts
\* followed by one line per failed branch
FinalStatus(deleted, failed) ==
    IF Len(failed) = 0
    THEN <<<<"success", "Successfully deleted", deleted>>>>
    ELSE <<<<"warning", "Deleted, failed", deleted, Len(failed)>>>>
         \o [i \in 1..Len(failed) |-> <<"log", "Failed:", failed[i]>>]

\* after Promise.all(workers): the final status
DeleteBranchesFinish ==
    /\ pc = "awaitDeletion"
    /\ PromiseAll(dpc)
    /\ reports' = reports \o FinalStatus(deletedCount, failedBranchesSync)
    /\ pc' = "done"
    /\ UNCHANGED <<cmds, branchesToDelete, prResults>>
    /\ UNCHANGED deleteVars /\ UNCHANGED runVars /\ UNCHANGED checkVars
    /\ UNCHANGED <<listed, queried>> /\ UNCHANGED callVars /\ UNCHANGED startVars
    /\ spinner' = Reported(spinner, NewReports)

(* ------------------------------------------------------------------ *)
(* Specifications                                                      *)
(* ------------------------------------------------------------------ *)
\* the whole run
\* the steps of a run that cleans up
CleanupSteps ==
    \/ Entry
    \/ ParseArguments
    \/ CheckDependencies
    \/ GetCurrentBranch
    \/ CheckBranchesFetch
    \/ \E w \in StatusWorkers : FluidWorkerStart(w)
    \/ \E w \in StatusWorkers : FluidWorkerResume(w)
    \/ CheckBranchesFinish
    \/ CheckUntrackedFetch
    \/ UntrackedStep
    \/ DeleteBranchesStart
    \/ Confirm
    \/ \E w \in DeletionWorkers : DeletionWorkerStart(w)
    \/ \E w \in DeletionWorkers : DeletionWorkerResume(w)
    \/ \E w \in DeletionWorkers : DeletionWorkerWake(w)
    \/ DeleteBranchesFinish

Next ==
    \/ CleanupSteps
    \/ CountTracked
    \/ CountUntracked

Spec == Init /\ [][Next]_vars

\* a main-mode run up to the return of checkBranches, on main in a repository
\* of up to MaxBranches tracked feature branches
InitCheck ==
    InitRun({<< >>}, {ListingOf(n, [i \in 1..n |-> TRUE]) : n \in 0..MaxBranches}, {"main"})

\* one outcome of each kind: added to the delete list, kept, thrown
CheckOutcomes == {Str("MERGED"), Str("OPEN"), Throws}

FluidWorkerResumeCheck(w) == FluidWorkerSettles(w, CheckOutcomes)

NextCheck ==
    \/ Entry
    \/ ParseArguments
    \/ CheckDependencies
    \/ GetCurrentBranch
    \/ CheckBranchesFetch
    \/ \E w \in StatusWorkers : FluidWorkerStart(w)
    \/ \E w \in StatusWorkers : FluidWorkerResumeCheck(w)
    \/ CheckBranchesFinish

SpecCheck == InitCheck /\ [][NextCheck]_vars

\* an untracked-only run, with or without --dry-run, on main in a repository of
\* up to MaxCandidates local feature branches
InitDelete ==
    InitRun({<<Opt("--untracked-only")>>, <<Opt("--untracked-only"), Opt("--dry-run")>>},
            {ListingOf(n, [i \in 1..n |-> FALSE]) : n \in 0..MaxCandidates}, {"main"})

\* one result of each kind: success, timeout, failure returned, failure thrown
DeleteResultsCheck == {Str(""), TIMEOUT, Null, Throws}

DeletionWorkerResumeCheck(w) == DeletionWorkerSettles(w, DeleteResultsCheck)

NextDelete ==
    \/ Entry
    \/ ParseArguments
    \/ CheckDependencies
    \/ GetCurrentBranch
    \/ CheckUntrackedFetch
    \/ UntrackedStep
    \/ DeleteBranchesStart
    \/ Confirm
    \/ \E w \in DeletionWorkers : DeletionWorkerStart(w)
    \/ \E w \in DeletionWorkers : DeletionWorkerResumeCheck(w)
    \/ \E w \in DeletionWorkers : DeletionWorkerWake(w)
    \/ DeleteBranchesFinish

SpecDelete == InitDelete /\ [][NextDelete]_vars

\* an untracked-only run in a repository of up to MaxListing local feature
\* branches whose askConfirmation is replaced
InitPrompt ==
    InitRun({<<Opt("--untracked-only")>>},
            {ListingOf(n, [i \in 1..n |-> FALSE]) : n \in 0..MaxListing}, {"main"})

NextPrompt ==
    \/ Entry
    \/ ParseArguments
    \/ CheckDependencies
    \/ GetCurrentBranch
    \/ CheckUntrackedFetch
    \/ UntrackedStep
    \/ DeleteBranchesStart
    \/ ConfirmResolves
    \/ \E w \in DeletionWorkers : DeletionWorkerStart(w)
    \/ \E w \in DeletionWorkers : DeletionWorkerResumeCheck(w)
    \/ \E w \in DeletionWorkers : DeletionWorkerWake(w)
    \/ DeleteBranchesFinish

SpecPrompt == InitPrompt /\ [][NextPrompt]_vars

\* a main-mode run up to the return of checkBranches on a listing that names
\* a branch on more than one line, as the tests make execSync return one:
\* getBranches keeps every line
RepeatedListings ==
    UNION {{[i \in 1..n |-> TrackedLine(names[i])] \o <<TrackedLine("main")>> :
               names \in [1..n -> {"b1", "b2"}]} : n \in 2..MaxRepeated}

InitRepeated == InitRun({<< >>}, RepeatedListings, {"main"})

SpecRepeated == InitRepeated /\ [][NextCheck]_vars

\* a main-mode run up to the return of checkBranches whose status queries go
\* through getPRStatus and execCommand, on main in a repository of up to
\* MaxQueried tracked feature branches
InitQuery ==
    InitRun({<< >>}, {ListingOf(n, [i \in 1..n |-> TRUE]) : n \in 0..MaxQueried}, {"main"})

\* execCommand made to reject, as the test of getPRStatus makes it
Rejects(error) == <<"rejects", error>>

\* what `gh pr view` can end in: a state printed, the timeout, a failure (no
\* pull request, no network), execCommand rejecting
QueryOutcomes == {Ok(<<<<"MERGED">>>>), Ok(<<<<"OPEN">>>>),
                  Err("ETIMEDOUT", "SIGTERM", "timed out"),
                  Err("", "", "Command failed"),
                  Rejects(Err("", "", "Failed"))}

\* what the await of execCommand in getPRStatus comes back with
QueryResult(outcome) ==
    IF outcome[1] = "rejects" THEN Thrown(outcome[2]) ELSE execCommand(outcome, TRUE)

\* a worker's status query ends in one of the given ways
FluidWorkerQueriesOf(w, outcomes) ==
    \E outcome \in outcomes :
        /\ FluidWorkerSettled(w, getPRStatus(QueryResult(outcome)))
        /\ queried' = MapSet(queried, widx[w], outcome)

\* a worker's status query ends
FluidWorkerQueries(w) == FluidWorkerQueriesOf(w, QueryOutcomes)

NextQuery ==
    \/ Entry
    \/ ParseArguments
    \/ CheckDependencies
    \/ GetCurrentBranch
    \/ CheckBranchesFetch
    \/ \E w \in StatusWorkers : FluidWorkerStart(w)
    \/ \E w \in StatusWorkers : FluidWorkerQueries(w)
    \/ CheckBranchesFinish

SpecQuery == InitQuery /\ [][NextQuery]_vars

\* a main-mode run up to the return of checkBranches, in a repository of up to
\* MaxBranches tracked feature branches, whose status queries print a state,
\* time out or fail
OnceOutcomes == {Ok(<<<<"MERGED">>>>),
                 Err("ETIMEDOUT", "SIGTERM", "timed out"),
                 Err("", "", "Command failed")}

FluidWorkerQueriesOnce(w) == FluidWorkerQueriesOf(w, OnceOutcomes)

NextOnce ==
    \/ Entry
    \/ ParseArguments
    \/ CheckDependencies
    \/ GetCurrentBranch
    \/ CheckBranchesFetch
    \/ \E w \in StatusWorkers : FluidWorkerStart(w)
    \/ \E w \in StatusWorkers : FluidWorkerQueriesOnce(w)
    \/ CheckBranchesFinish

SpecOnce == InitCheck /\ [][NextOnce]_vars

\* a method of the tool called on its own, as the test suite calls it:
\* execCommand on what execSync does, getBranches(mode) on what execSync does
\* with the listing command (or with execCommand made to reject)
OutputLines == {<<"b1", " ", "origin/b1">>,
                <<"b1", " ", " ", "origin/b1">>,
                <<"b2", " ">>,
                <<"main", " ", "origin/main">>,
                <<"master", " ">>,
                <<" ">>,
                <<" ", "b3", " ", "origin/b3">>,
                <<"__TIMEOUT__", " ">>}

Outputs == UNION {[1..n -> OutputLines] : n \in 0..MaxLines}

Modes == {"all", "tracked", "untracked"}

\* silent pipes the output to execSync, which returns it; not silent the output
\* is inherited and execSync returns null (the tests make it return a text)
ExecCommandCalls ==
    {<<"execCommand", outcome, TRUE>> :
        outcome \in {Ok(t) : t \in Outputs} \cup ExecErrors}
    \cup
    {<<"execCommand", outcome, FALSE>> :
        outcome \in {Ok(t) : t \in Outputs} \cup {OkNothing} \cup ExecErrors}

\* the options a caller can hand to execCommand: none, silent, a timeout of
\* its own (0 stands for a timeout that is falsy), or both
ExecOptions ==
    {<< >>} \cup {[silent |-> sl] : sl \in BOOLEAN}
    \cup {[timeout |-> t] : t \in {0, 5000, PR_STATUS_TIMEOUT}}
    \cup {[silent |-> sl, timeout |-> t] : sl \in BOOLEAN, t \in {0, 5000, PR_STATUS_TIMEOUT}}

\* options.silent, undefined (falsy) when the caller gives none
Silent(options) == "silent" \in DOMAIN options /\ options.silent

ExecCommandOptionsCalls ==
    {<<"execCommand options", outcome, options>> :
        outcome \in {Ok(<< >>), Ok(<<<<"b1">>>>)} \cup ExecErrors, options \in ExecOptions}

GetBranchesCalls ==
    {<<"getBranches", mode, outcome>> :
        mode \in Modes,
        outcome \in {Ok(t) : t \in Outputs} \cup ExecErrors \cup {Throws}}

InitCall ==
    /\ pc = "call"
    /\ args = << >>
    /\ cwd = StartDir
    /\ repo = <<>>
    /\ head = ""
    /\ callArgs \in ExecCommandCalls \cup ExecCommandOptionsCalls \cup GetBranchesCalls
    /\ currentBranch \in IF callArgs[1] = "getBranches" THEN {"", "b1", "b3"} ELSE {""}
    /\ callResult = <<>>
    /\ Constructed

CallExecCommand ==
    /\ pc = "call"
    /\ callArgs[1] = "execCommand"
    /\ callResult' = execCommand(callArgs[2], callArgs[3])
    /\ pc' = "returned"
    /\ UNCHANGED <<callArgs, branchesToDelete, prResults, cmds, reports, listed, queried>>
    /\ UNCHANGED startVars
    /\ UNCHANGED runVars /\ UNCHANGED checkVars /\ UNCHANGED deleteVars
    /\ UNCHANGED spinner

\* execCommand called with an options object: the command goes to execSync
\* under the timeout of the merged options
CallExecCommandOptions ==
    /\ pc = "call"
    /\ callArgs[1] = "execCommand options"
    /\ callResult' = execCommand(callArgs[2], Silent(callArgs[3]))
    /\ cmds' = Append(cmds, <<"cmd", "", Deadline(callArgs[3])>>)
    /\ pc' = "returned"
    /\ UNCHANGED <<callArgs, branchesToDelete, prResults, reports, listed, queried>>
    /\ UNCHANGED startVars
    /\ UNCHANGED runVars /\ UNCHANGED checkVars /\ UNCHANGED deleteVars
    /\ UNCHANGED spinner

CallGetBranches ==
    /\ pc = "call"
    /\ callArgs[1] = "getBranches"
    /\ LET got == IF callArgs[3] = Throws THEN Throws ELSE execCommand(callArgs[3], TRUE)
       IN  /\ listed' = got
           /\ callResult' = getBranches(got, callArgs[2], currentBranch)
           /\ reports' = reports \o getBranchesReports(got, callArgs[2])
    /\ cmds' = Append(cmds, <<"git for-each-ref">>)
    /\ pc' = "returned"
    /\ UNCHANGED <<callArgs, branchesToDelete, prResults, queried>>
    /\ UNCHANGED startVars
    /\ UNCHANGED runVars /\ UNCHANGED checkVars /\ UNCHANGED deleteVars
    /\ spinner' = Reported(spinner, NewReports)

NextCall ==
    \/ CallExecCommand
    \/ CallExecCommandOptions
    \/ CallGetBranches

SpecCall == InitCall /\ [][NextCall]_vars

\* the spinner on its own: any sequence of its operations and of the ticks of
\* its timer
InitSpinner ==
    /\ pc = "spinner"
    /\ args = << >>
    /\ cwd = StartDir
    /\ repo = <<>>
    /\ head = ""
    /\ currentBranch = ""
    /\ callArgs = <<>>
    /\ callResult = <<>>
    /\ Constructed

\* one operation: the spinner after it; the operation, the spinner before it
\* and what it wrote are kept
SpinnerCall(op, after, isVerbose) ==
    /\ pc = "spinner"
    /\ spinner' = after
    /\ callArgs' = <<op, spinner, isVerbose>>
    /\ callResult' = Writes(op, spinner, isVerbose)
    /\ UNCHANGED <<pc, branchesToDelete, prResults, cmds, reports, listed, queried>>
    /\ UNCHANGED startVars
    /\ UNCHANGED runVars /\ UNCHANGED checkVars /\ UNCHANGED deleteVars

SpinnerStart == SpinnerCall("start", Spinner_start(spinner), FALSE)
SpinnerStop == SpinnerCall("stop", Spinner_stop(spinner), FALSE)
SpinnerUpdateMessage ==
    \E message \in {"Checking branch", "Deleting branch"} :
        SpinnerCall("updateMessage", Spinner_updateMessage(spinner, message), FALSE)
SpinnerSuccess == SpinnerCall("success", Spinner_success(spinner), FALSE)
SpinnerError == SpinnerCall("error", Spinner_error(spinner), FALSE)
SpinnerWarning == SpinnerCall("warning", Spinner_warning(spinner), FALSE)
SpinnerInfo == SpinnerCall("info", Spinner_info(spinner), FALSE)
SpinnerDebug ==
    \E isVerbose \in BOOLEAN : SpinnerCall("debug", Spinner_debug(spinner, isVerbose), isVerbose)
SpinnerLog == SpinnerCall("log", Spinner_log(spinner), FALSE)

\* the timer fires
SpinnerTick ==
    /\ spinner.timers > 0
    /\ SpinnerCall("tick", Spinner_tick(spinner), FALSE)

NextSpinner ==
    \/ SpinnerStart
    \/ SpinnerStop
    \/ SpinnerUpdateMessage
    \/ SpinnerSuccess
    \/ SpinnerError
    \/ SpinnerWarning
    \/ SpinnerInfo
    \/ SpinnerDebug
    \/ SpinnerLog
    \/ SpinnerTick

SpecSpinner == InitSpinner /\ [][NextSpinner]_vars

\* runs in which every command that was issued returns and every continuation
\* that is ready runs: a main-mode dry run in a repository of up to MaxBranches
\* tracked feature branches, and an untracked-only run in a repository of up
\* to MaxCandidates local feature branches; a unit succeeds or fails
InitLive ==
    \/ InitRun({<<Opt("--dry-run")>>},
               {ListingOf(n, [i \in 1..n |-> TRUE]) : n \in 0..MaxBranches}, {"main"})
    \/ InitRun({<<Opt("--untracked-only")>>},
               {ListingOf(n, [i \in 1..n |-> FALSE]) : n \in 0..MaxCandidates}, {"main"})

LiveOutcomes == {Str("MERGED"), Throws}
LiveResults == {Str("Deleted branch"), Null}

FluidWorkerResumeLive(w) == FluidWorkerSettles(w, LiveOutcomes)
DeletionWorkerResumeLive(w) == DeletionWorkerSettles(w, LiveResults)

\* the steps other than the return of a listing
LiveSteps ==
    \/ Entry
    \/ ParseArguments
    \/ CheckDependencies
    \/ GetCurrentBranch
    \/ \E w \in StatusWorkers : FluidWorkerStart(w)
    \/ \E w \in StatusWorkers : FluidWorkerResumeLive(w)
    \/ CheckBranchesFinish
    \/ UntrackedStep
    \/ DeleteBranchesStart
    \/ Confirm
    \/ \E w \in DeletionWorkers : DeletionWorkerStart(w)
    \/ \E w \in DeletionWorkers : DeletionWorkerResumeLive(w)
    \/ \E w \in DeletionWorkers : DeletionWorkerWake(w)
    \/ DeleteBranchesFinish

NextLive ==
    \/ LiveSteps
    \/ CheckBranchesFetch
    \/ CheckUntrackedFetch

\* the awaited listing command returns: the run leaves the await
ListingReturns ==
    /\ pc \in {"checkBranches", "checkUntrackedBranches"}
    /\ pc' \in {"spawn", "awaitWorkers", "untrackedLoop", "deleteBranches"}

SpecLive ==
    InitLive /\ [][NextLive]_vars /\ WF_vars(LiveSteps) /\ WF_pc(ListingReturns)

\* the arguments a command line is made of: the mode flags, help and version,
\* an option the tool does not know, a directory that exists and one that does
\* not
ModeFlags == {Opt("--dry-run"), Opt("-u"), Opt("--count"), Opt("-v")}
HelpVersionFlags == {Opt("--help"), Opt("-V")}
ArgTokens ==
    ModeFlags \cup HelpVersionFlags \cup
    {Opt("--bogus"), Dir("relative", <<"repo">>), Dir("relative", <<"gone">>)}

ArgLists(n) == UNION {[1..k -> ArgTokens] : k \in 0..n}

\* a run with any command line of up to MaxArgs arguments, on main in a
\* repository with one feature branch, tracked or not
InitArgs ==
    InitRun(ArgLists(MaxArgs), {ListingOf(1, <<TRUE>>), ListingOf(1, <<FALSE>>)}, {"main"})

SpecArgs == InitArgs /\ [][Next]_vars

\* the listing as a clean-up run meets it and as getBranches(mode) called on
\* its own meets it
InitListing ==
    \/ InitRun(CleanupArgs, Repos(MaxListing), {"main", "b1", ""})
    \/ InitCall /\ callArgs[1] = "getBranches"

NextListing ==
    \/ CleanupSteps
    \/ CallGetBranches

SpecListing == InitListing /\ [][NextListing]_vars

(* ------------------------------------------------------------------ *)
(* Observations used by the properties                                 *)
(* ------------------------------------------------------------------ *)
\* checkBranches has returned (main mode)
CheckBranchesReturned ==
    /\ ~untrackedOnly
    /\ pc \in {"deleteBranches", "askConfirmation", "spawnDelete", "awaitDeletion", "done"}

\* the branches `git branch -d` was issued for, in order
DeleteCommands ==
    LET issued == SelectSeq(cmds, LAMBDA c : c[1] = "git branch -d")
    IN  [i \in 1..Len(issued) |-> issued[i][2]]

Awaiting == {w \in StatusWorkers : wpc[w] = "await"}
Created == {w \in StatusWorkers : wpc[w] # "idle"}

\* a call of the named method on its own has returned
Returned(method) == pc = "returned" /\ callArgs[1] = method

\* position of a name in a list of distinct names
IndexOf(list, x) == CHOOSE i \in 1..Len(list) : list[i] = x

(* ------------------------------------------------------------------ *)
(* C1..C10                                                             *)
(* ------------------------------------------------------------------ *)

\* C1: when checkBranches has returned, prResults has exactly one entry per
\* input branch and entry i is the record of branches[i], whatever the order of
\* completion and whichever branches threw.
C1_ResultsInInputOrder ==
    CheckBranchesReturned =>
        /\ Len(prResults) = Len(branches)
        /\ \A i \in 1..Len(branches) : prResults[i].branch = branches[i]

\* a finished check of more branches than workers, in which a branch threw and
\* the branches to delete completed out of input order
C1_Witness ==
    /\ CheckBranchesReturned
    /\ Len(branches) > CONCURRENCY_LIMIT
    /\ \E i \in 1..Len(prResults) : prResults[i].label = "Error"
    /\ \E i, j \in 1..Len(branchesToDelete) :
          /\ i < j
          /\ IndexOf(branches, branchesToDelete[i]) > IndexOf(branches, branchesToDelete[j])

\* C2: the cursor nextIndex never decreases and stays within 0..N; the indices
\* handed out are 0, 1, 2, ... each once and none skipped, two workers never hold
\* the same index, and when all workers are through every index 0..N-1 was handed.
C2_State ==
    /\ nextIndex \in 0..Len(branches)
    /\ handed = [i \in 1..nextIndex |-> i - 1]
    /\ \A v, w \in Awaiting : v # w => widx[v] # widx[w]
    /\ \A w \in Awaiting : widx[w] \in 0..(Len(branches) - 1)
    /\ CheckBranchesReturned /\ Len(branches) > 0 => nextIndex = Len(branches)

C2_CursorClaimsEachIndexOnce ==
    [](C2_State) /\ [][nextIndex' >= nextIndex]_vars

\* a worker holds an index beyond the first CONCURRENCY_LIMIT while others are
\* still in flight: the cursor was contended
C2_Witness ==
    /\ \E w \in Awaiting : widx[w] >= CONCURRENCY_LIMIT
    /\ Cardinality(Awaiting) = CONCURRENCY_LIMIT
    /\ nextIndex = Len(branches)

\* C3: a branch whose processing threw ends with the Error record and every
\* other branch with the record of its own status; the worker that caught the
\* failure claims the next index when one is left; checkBranches returns normally
\* (the run never exits with an error once a status query has settled).
C3_Results ==
    /\ (pc = "exit" \/ exitCode # -1) => settled = << >>
    /\ CheckBranchesReturned /\ Len(branches) > 0 =>
         \A i \in 1..Len(branches) :
            /\ (i - 1) \in DOMAIN settled
            /\ IF settled[i - 1] = Throws
               THEN prResults[i] =
                       [branch |-> branches[i], icon |-> "warning", label |-> "Error"]
               ELSE prResults[i] = BranchResult(branches[i], settled[i - 1])

C3_WorkerGoesOn ==
    \A w \in StatusWorkers :
        (/\ wpc[w] = "await"
         /\ widx[w] \notin DOMAIN settled
         /\ widx[w] \in DOMAIN settled'
         /\ settled'[widx[w]] = Throws)
        => IF nextIndex < Len(branches)
           THEN wpc'[w] = "await" /\ widx'[w] = nextIndex
           ELSE wpc'[w] = "done"

C3_FailureIsolated ==
    [](C3_Results) /\ [][C3_WorkerGoesOn]_vars

\* the first CONCURRENCY_LIMIT branches all threw, so the branch after them was
\* claimed by a worker that had caught a failure, and it resolved normally
C3_Witness ==
    /\ CheckBranchesReturned
    /\ Len(branches) > CONCURRENCY_LIMIT
    /\ \A i \in 0..(CONCURRENCY_LIMIT - 1) : settled[i] = Throws
    /\ settled[CONCURRENCY_LIMIT] = Str("MERGED")
    /\ prResults[CONCURRENCY_LIMIT + 1].label = "Merged"
    /\ prResults[1].label = "Error"

\* C10: at most min(5, N) status queries are in flight at any time, and once the
\* workers are created there are exactly min(5, N) of them.
C10_WorkersBounded ==
    /\ Cardinality(Awaiting) <= Min(5, Len(branches))
    /\ Cardinality(Created) <= Min(5, Len(branches))
    /\ (pc = "awaitWorkers" \/ (CheckBranchesReturned /\ Len(branches) >= 1))
          => Cardinality(Created) = Min(5, Len(branches))

\* five queries in flight for six or more branches
C10_Witness ==
    /\ pc = "awaitWorkers"
    /\ Len(branches) > 5
    /\ Cardinality(Awaiting) = 5
    /\ nextIndex = 5

\* C4: no `git branch -d` is ever issued for main, master or the branch recorded
\* as current, in either mode.
C4_ProtectedNeverDeleted ==
    \A k \in 1..Len(DeleteCommands) :
        DeleteCommands[k] \notin {"main", "master", currentBranch}

\* a finished run on the feature branch b1, in a repository that lists b1, main
\* and master, which deleted another branch
C4_Witness ==
    /\ pc = "done"
    /\ currentBranch = "b1"
    /\ {"b1", "main", "master"} \subseteq NamesOf(repo)
    /\ Len(DeleteCommands) >= 1

\* C5: a branch `git branch -d` is issued for had its own status query answer
\* MERGED or CLOSED (main mode) or is listed without upstream (untracked-only
\* mode); a branch whose result is Open, Timeout, No PR or Error is never deleted.
C5_OnlyEligibleDeleted ==
    /\ \A k \in 1..Len(DeleteCommands) :
          LET b == DeleteCommands[k]
          IN  IF untrackedOnly
              THEN \E i \in 1..Len(repo) : repo[i] = UntrackedLine(b)
              ELSE \E i \in 1..Len(branches) :
                      /\ branches[i] = b
                      /\ (i - 1) \in DOMAIN settled
                      /\ settled[i - 1] \in {Str("MERGED"), Str("CLOSED")}
    /\ \A i \in 1..Len(prResults) :
          prResults[i].label \in {"Open", "Timeout", "No PR", "Error"}
              => \A k \in 1..Len(DeleteCommands) : DeleteCommands[k] # prResults[i].branch

\* a finished main-mode run that deleted one branch and kept an open one
C5_Witness ==
    /\ pc = "done"
    /\ ~untrackedOnly
    /\ Len(DeleteCommands) >= 1
    /\ \E i \in 1..Len(prResults) : prResults[i].label = "Open"

\* C6: a delete command is issued only after the one prompt of the run was
\* answered y or yes; after any other answer there is no delete command, no
\* deletion worker, and the run ends on the report "Cancelled.".
C6_DeleteOnlyAfterYes ==
    /\ Len(DeleteCommands) > 0 => answered = "yes" /\ prompts = 1
    /\ \A w \in DeletionWorkers : dpc[w] # "idle" => answered = "yes"
    /\ answered = "no" =>
          /\ Len(DeleteCommands) = 0
          /\ \A w \in DeletionWorkers : dpc[w] = "idle"
          /\ pc = "done"
          /\ reports[Len(reports)] = <<"info", "Cancelled.">>

\* the prompt was shown for two candidates and declined
C6_Witness ==
    /\ answered = "no"
    /\ prompts = 1
    /\ Len(branchesToDelete) >= 2

\* C7: with dry-run set, no delete command is issued and no prompt is shown.
C7_DryRunDeletesNothing ==
    dryRun => Len(DeleteCommands) = 0 /\ prompts = 0

\* a finished dry run in untracked-only mode that had candidates
C7_Witness ==
    /\ pc = "done"
    /\ dryRun
    /\ untrackedOnly
    /\ Len(branchesToDelete) >= 1
    /\ reports[Len(reports)] = <<"info", "Run without --dry-run">>

\* C8: the delete commands issued are the first nextDeleteIndex candidates, each
\* once; when a confirmed deleteBranches is through, every candidate had exactly
\* one delete command.
C8_OneDeletePerCandidate ==
    /\ Len(DeleteCommands) = nextDeleteIndex
    /\ \A k, l \in 1..Len(DeleteCommands) : k # l => DeleteCommands[k] # DeleteCommands[l]
    /\ \A k \in 1..Len(DeleteCommands) :
          \E i \in 1..Len(branchesToDelete) : branchesToDelete[i] = DeleteCommands[k]
    /\ (pc = "done" /\ confirmed) =>
          \A i \in 1..Len(branchesToDelete) :
              Cardinality({k \in 1..Len(DeleteCommands) :
                              DeleteCommands[k] = branchesToDelete[i]}) = 1

\* a confirmed deletion of more candidates than workers, with successes and failures
C8_Witness ==
    /\ pc = "done"
    /\ confirmed
    /\ Len(branchesToDelete) > DELETE_CONCURRENCY
    /\ deletedCount >= 1
    /\ Len(failedBranchesSync) >= 1

\* C9: a candidate whose delete command came back with the timeout sentinel,
\* null or an exception is in the failed list once and not counted deleted; any
\* other value counts it deleted; a timeout is logged with its own text.
DeleteFailed(b) == deleteSettled[b] \in {TIMEOUT, Null, Throws}

C9_DeleteOutcomeTally ==
    /\ \A b \in DOMAIN deleteSettled :
          /\ Cardinality({i \in 1..Len(failedBranchesSync) : failedBranchesSync[i] = b})
                = (IF DeleteFailed(b) THEN 1 ELSE 0)
          /\ deleteLog[b] =
                (IF deleteSettled[b] = TIMEOUT THEN <<"Failed to delete branch (timeout)", b>>
                 ELSE IF DeleteFailed(b) THEN <<"Failed to delete branch", b>>
                 ELSE <<"Deleted branch", b>>)
    /\ deletedCount = Cardinality({b \in DOMAIN deleteSettled : ~DeleteFailed(b)})
    /\ Len(failedBranchesSync) = Cardinality({b \in DOMAIN deleteSettled : DeleteFailed(b)})

\* a finished deletion in which one candidate timed out, one returned null, one
\* threw and one returned an empty output
C9_Witness ==
    /\ pc = "done"
    /\ \E a, b, c, d \in DOMAIN deleteSettled :
          /\ deleteSettled[a] = TIMEOUT
          /\ deleteSettled[b] = Null
          /\ deleteSettled[c] = Throws
          /\ deleteSettled[d] = Str("")
    /\ deletedCount = 1
    /\ Len(failedBranchesSync) = 3

\* C11: a confirmed deleteBranches creates exactly min(3, N) deletion workers
\* for N candidates, and at no time are more than min(3, N) delete commands in
\* flight.
DeletesInFlight == {w \in DeletionWorkers : dpc[w] = "await"}
DeletionWorkersCreated == {w \in DeletionWorkers : dpc[w] # "idle"}

C11_DeletionWorkersBounded ==
    /\ Cardinality(DeletesInFlight) <= Min(3, Len(branchesToDelete))
    /\ Cardinality(DeletionWorkersCreated) <= Min(3, Len(branchesToDelete))
    /\ (confirmed /\ pc \in {"awaitDeletion", "done"})
          => Cardinality(DeletionWorkersCreated) = Min(3, Len(branchesToDelete))

\* three delete commands in flight for four candidates
C11_Witness ==
    /\ pc = "awaitDeletion"
    /\ Len(branchesToDelete) > 3
    /\ Cardinality(DeletesInFlight) = 3
    /\ nextDeleteIndex = 3

\* C12: with no tracked branch, checkBranches creates no worker, issues no
\* status query, leaves prResults and branchesToDelete as constructed, and its
\* only report is the warning that there is nothing to check.
CheckBranchesReports ==
    SelectSeq(reports, LAMBDA r :
        r \in {<<"warning", "No tracked branches found to check.">>,
               <<"success", "Finished checking tracked branches">>})

C12_NothingToCheck ==
    (CheckBranchesReturned /\ Len(branches) = 0) =>
        /\ \A w \in StatusWorkers : wpc[w] = "idle"
        /\ \A k \in 1..Len(cmds) : cmds[k][1] # "gh pr view"
        /\ handed = << >>
        /\ prResults = << >>
        /\ branchesToDelete = << >>
        /\ CheckBranchesReports = <<<<"warning", "No tracked branches found to check.">>>>

\* a run in a repository whose only local branches are main and master, past
\* checkBranches
C12_Witness ==
    /\ CheckBranchesReturned
    /\ Len(branches) = 0
    /\ cmds[Len(cmds)] = <<"git for-each-ref">>
    /\ NamesOf(repo) = {"main", "master"}

\* C13: the record and the deletability of a branch follow from its status
\* alone: MERGED gives Merged and deletable, CLOSED gives Closed and deletable,
\* OPEN gives Open and kept, the timeout sentinel gives Timeout and kept, null
\* and any other value give No PR and kept, for every branch and every schedule.
C13_Decision(s) ==
    CASE s = <<"string", "MERGED">> -> <<"check", "Merged", TRUE>>
      [] s = <<"string", "CLOSED">> -> <<"lock", "Closed", TRUE>>
      [] s = <<"string", "OPEN">> -> <<"hourglass", "Open", FALSE>>
      [] s = <<"string", "__TIMEOUT__">> -> <<"question", "Timeout", FALSE>>
      [] OTHER -> <<"cross", "No PR", FALSE>>

C13_StatusDecides ==
    \A i \in DOMAIN settled :
        settled[i] # Throws =>
            LET b == branches[i + 1]
                r == MapGet(resultsMap, b)
                d == C13_Decision(settled[i])
            IN  /\ r = [branch |-> b, icon |-> d[1], label |-> d[2]]
                /\ (\E k \in 1..Len(branchesToDeleteSync) : branchesToDeleteSync[k] = b) = d[3]

\* two branches that settled with the timeout sentinel and with an unknown
\* status, in that order of completion or the other
C13_Witness ==
    /\ CheckBranchesReturned
    /\ \E i, j \in DOMAIN settled :
          /\ settled[i] = TIMEOUT
          /\ settled[j] = Str("DRAFT")
          /\ prResults[i + 1].label = "Timeout"
          /\ prResults[j + 1].label = "No PR"

\* C14: whatever the listing command printed, whatever the current branch and
\* the mode, the list getBranches returns holds neither main, nor master, nor
\* the current branch.
C14_NoProtectedListed ==
    Returned("getBranches") =>
        \A k \in 1..Len(callResult) : callResult[k] \notin {"main", "master", currentBranch}

\* a listing of main, the current branch b1 and b2, from which
\* getBranches("all") returned b2 alone
C14_Witness ==
    /\ Returned("getBranches")
    /\ callArgs[2] = "all"
    /\ currentBranch = "b1"
    /\ callArgs[3] = Ok(<<<<"main", " ", "origin/main">>, <<"b1", " ", "origin/b1">>,
                          <<"b2", " ">>>>)
    /\ callResult = <<"b2">>

\* C15: for every text the listing command prints, getBranches(mode) returns,
\* in the order of the text and with repetitions kept, the first word of every
\* line that has a word, is not main, master or the current branch, and has a
\* second word (tracked), has none (untracked), or either (all); the number of
\* blanks between the words makes no difference.
C15_Words(line) == SelectSeq(line, LAMBDA t : t # " ")

C15_Expected(lines, mode, current) ==
    LET counts(line) ==
            /\ C15_Words(line) # << >>
            /\ C15_Words(line)[1] \notin {"main", "master", current}
            /\ mode = "tracked" => Len(C15_Words(line)) > 1
            /\ mode = "untracked" => Len(C15_Words(line)) = 1
        kept == SelectSeq(lines, counts)
    IN  [k \in 1..Len(kept) |-> C15_Words(kept[k])[1]]

C15_ListedByUpstream ==
    (Returned("getBranches") /\ callArgs[3][1] = "ok") =>
        callResult = C15_Expected(callArgs[3][2], callArgs[2], currentBranch)

\* C16: when the listing command came back with null or the timeout sentinel,
\* or rejected, getBranches reports one error that names its mode (with the
\* timeout text for the sentinel) and returns the empty list; a run goes on as
\* with no branch found: no exit, no status query, no delete command, and the
\* warning that nothing was found.
C16_Mode ==
    IF pc = "returned" THEN callArgs[2]
    ELSE IF untrackedOnly THEN "untracked" ELSE "tracked"

C16_FailedListingIsEmpty ==
    listed \in {Null, TIMEOUT, Throws} =>
        /\ SelectSeq(reports, LAMBDA r : r[1] = "error") =
              <<<<"error",
                  IF listed = TIMEOUT THEN "Failed to get branches (timeout)"
                  ELSE "Failed to get branches",
                  C16_Mode>>>>
        /\ pc = "returned" => callResult = << >>
        /\ pc # "returned" =>
              /\ pc \in {"deleteBranches", "done"}
              /\ exitCode = -1
              /\ branches = << >>
              /\ prResults = << >>
              /\ branchesToDelete = << >>
              /\ \A k \in 1..Len(cmds) : cmds[k][1] \notin {"gh pr view", "git branch -d"}
              /\ \E k \in 1..Len(reports) :
                    reports[k] = IF untrackedOnly
                                 THEN <<"warning", "No untracked local branches found.">>
                                 ELSE <<"warning", "No tracked branches found to check.">>

\* a finished untracked-only run whose listing timed out
C16_Witness ==
    /\ pc = "done"
    /\ untrackedOnly
    /\ listed = TIMEOUT
    /\ Len(repo) > 2

\* C17: a silent execCommand never rejects; when execSync returned, it returns
\* the output without the white space at its two ends; when execSync threw an
\* error of code ETIMEDOUT or signal SIGTERM (a timeout), it returns the
\* sentinel; when execSync threw any other error, it returns null.
RECURSIVE C17_Flat(_)
C17_Flat(lines) ==
    IF lines = << >> THEN << >>
    ELSE IF Len(lines) = 1 THEN lines[1]
    ELSE lines[1] \o <<"\n">> \o C17_Flat(Tail(lines))

C17_Strip(chars) ==
    LET solid == {i \in 1..Len(chars) : chars[i] \notin {" ", "\n"}}
    IN  IF solid = {} THEN << >>
        ELSE SubSeq(chars, CHOOSE i \in solid : \A j \in solid : i <= j,
                           CHOOSE i \in solid : \A j \in solid : i >= j)

C17_SilentOutcome ==
    (Returned("execCommand") /\ callArgs[3]) =>
        /\ callResult[1] # "throws"
        /\ callArgs[2][1] = "ok" =>
              /\ callResult[1] = "string"
              /\ C17_Flat(LinesOf(callResult)) = C17_Strip(C17_Flat(callArgs[2][2]))
        /\ callArgs[2][1] = "error" =>
              callResult = IF callArgs[2][2] = "ETIMEDOUT" \/ callArgs[2][3] = "SIGTERM"
                           THEN <<"string", "__TIMEOUT__">>
                           ELSE <<"null">>

\* a silent command whose output had a blank line before it and a blank after
\* it came back trimmed
C17_Witness ==
    /\ Returned("execCommand")
    /\ callArgs[3]
    /\ callArgs[2] = Ok(<<<<" ">>, <<" ", "b3", " ", "origin/b3">>, <<"b2", " ">>>>)
    /\ callResult = Text(<<<<"b3", " ", "origin/b3">>, <<"b2">>>>)

\* C18: whatever a command that completed printed, the value a silent
\* execCommand returns for it differs from the value it returns for a timeout.
C18_SentinelDistinct ==
    (Returned("execCommand") /\ callArgs[3] /\ callArgs[2][1] = "ok") =>
        callResult # execCommand(Err("ETIMEDOUT", "SIGTERM", "timed out"), TRUE)

\* C19: when execSync throws and the command is not silent, execCommand rejects
\* with that same error, message included, whatever its code and signal, and
\* returns neither null nor the sentinel.
C19_LoudFailurePropagates ==
    (Returned("execCommand") /\ ~callArgs[3] /\ callArgs[2][1] = "error") =>
        /\ callResult = <<"throws", callArgs[2]>>
        /\ callResult[2][4] = callArgs[2][4]
        /\ callResult # Null
        /\ callResult # TIMEOUT

\* a command that was not silent timed out, and execCommand rejected
C19_Witness ==
    /\ Returned("execCommand")
    /\ ~callArgs[3]
    /\ callArgs[2] = Err("ETIMEDOUT", "SIGTERM", "timed out")
    /\ callResult[1] = "throws"

\* C20 (as stated): a failed status query never ends the run; a query that
\* timed out leaves its branch the Timeout record and a query that raised any
\* other exception leaves its branch the Error record; the queries of the other
\* branches are all issued and resolved.
C20_TimedOut(outcome) ==
    outcome[1] = "error" /\ (outcome[2] = "ETIMEDOUT" \/ outcome[3] = "SIGTERM")

C20_Raised(outcome) ==
    outcome[1] = "rejects" \/ (outcome[1] = "error" /\ ~C20_TimedOut(outcome))

C20_Isolated ==
    /\ queried # << >> => exitCode = -1 /\ pc # "exit"
    /\ (CheckBranchesReturned /\ Len(branches) > 0) =>
          /\ DOMAIN queried = 0..(Len(branches) - 1)
          /\ \A i \in 1..Len(branches) :
                \E k \in 1..Len(cmds) :
                    cmds[k][1] = "gh pr view" /\ cmds[k][2] = branches[i]
          /\ \A i \in 1..Len(branches) :
                queried[i - 1][1] = "ok" =>
                    prResults[i].label = (IF queried[i - 1] = Ok(<<<<"MERGED">>>>)
                                          THEN "Merged" ELSE "Open")

C20_LabelAfter(label) ==
    \A i \in DOMAIN queried :
        LET r == MapGet(resultsMap, branches[i + 1])
        IN  /\ C20_TimedOut(queried[i]) => r.label = "Timeout"
            /\ C20_Raised(queried[i]) => r.label = label

C20_QueryFailureIsError ==
    C20_Isolated /\ C20_LabelAfter("Error")

\* C20 (amended): the same, but a query that raised an exception other than a
\* timeout leaves its branch the No PR record: getPRStatus returns null for it.
C20_QueryFailureIsNoPR ==
    C20_Isolated /\ C20_LabelAfter("No PR")

\* three branches checked: the query of the first timed out, the query of the
\* second failed, execCommand rejected for the third
C20_Witness ==
    /\ CheckBranchesReturned
    /\ Len(branches) = 3
    /\ C20_TimedOut(queried[0])
    /\ queried[1] = Err("", "", "Command failed")
    /\ queried[2][1] = "rejects"
    /\ prResults[1].label = "Timeout"
    /\ prResults[2].label = "No PR"
    /\ prResults[3].label = "No PR"

(* ------------------------------------------------------------------ *)
(* C21..C30                                                            *)
(* ------------------------------------------------------------------ *)
\* the commands of checkDependencies and getCurrentBranch
SetupCommands ==
    {"git rev-parse", "gh --version", "gh auth status", "git branch --show-current"}

\* C21: once the repository check, a GitHub CLI check or the current-branch
\* query came back with null or the timeout sentinel, the run has reported one
\* error, has ended with exit status 1, that command is the last one issued,
\* and there was no branch listing, no status query, no prompt and no delete
\* command.
C21_SetupFailureIsFatal ==
    (\E k \in 1..Len(setup) : setup[k] \in {Null, TIMEOUT}) =>
        /\ pc = "exit"
        /\ exitCode = 1
        /\ setup[Len(setup)] \in {Null, TIMEOUT}
        /\ Len(SelectSeq(reports, LAMBDA r : r[1] = "error")) = 1
        /\ reports[Len(reports)][1] = "error"
        /\ Len(cmds) = Len(setup)
        /\ \A k \in 1..Len(cmds) : cmds[k][1] \in SetupCommands
        /\ prompts = 0
        /\ listed = << >>
        /\ queried = << >>

\* a main-mode run whose authentication check timed out
C21_Witness ==
    /\ setup = <<Str("ok"), Str("ok"), TIMEOUT>>
    /\ pc = "exit"
    /\ ~untrackedOnly /\ ~countOnly

\* C22: the two batches never overlap: while a status query is in flight no
\* delete command has been issued and none is in flight, and in main mode a
\* delete command has been issued only when every status worker has returned,
\* every branch has settled, and the results and the delete list were
\* published.
C22_BatchesNeverOverlap ==
    /\ Awaiting # {} =>
          /\ DeleteCommands = << >>
          /\ DeletesInFlight = {}
          /\ pc \in {"spawn", "awaitWorkers"}
    /\ (~untrackedOnly /\ (DeleteCommands # << >> \/ DeletesInFlight # {})) =>
          /\ \A w \in StatusWorkers : wpc[w] \in {"idle", "done"}
          /\ DOMAIN settled = 0..(Len(branches) - 1)
          /\ prResults = Reconstruct(branches, resultsMap)
          /\ branchesToDelete = branchesToDeleteSync

\* a main-mode run that checked two branches with two workers and has issued
\* a delete command
C22_Witness ==
    /\ ~untrackedOnly
    /\ Cardinality(Created) = 2
    /\ Len(DeleteCommands) > 0

\* the lines of the final status that name a failed branch
FailedLines ==
    SelectSeq(reports, LAMBDA r : r[1] = "log" /\ r[2] = "Failed:")

\* C26: when a confirmed deletion of the N candidates has finished, the
\* deleted count and the length of the failed list add up to N, the final
\* status names each branch whose delete command failed once and no other
\* branch, and it is the success line exactly when no branch failed (the
\* warning with the two counts otherwise).
C26_FinalTally ==
    (pc = "done" /\ confirmed) =>
        /\ deletedCount + Len(failedBranchesSync) = Len(branchesToDelete)
        /\ Len(branchesToDelete) > 0
        /\ \A i \in 1..Len(branchesToDelete) :
              Cardinality({k \in 1..Len(FailedLines) :
                              FailedLines[k][3] = branchesToDelete[i]}) =
                 (IF DeleteFailed(branchesToDelete[i]) THEN 1 ELSE 0)
        /\ Len(FailedLines) = Len(failedBranchesSync)
        /\ (\E k \in 1..Len(reports) :
               reports[k] = <<"success", "Successfully deleted", deletedCount>>)
              <=> failedBranchesSync = << >>
        /\ (\E k \in 1..Len(reports) :
               reports[k] = <<"warning", "Deleted, failed", deletedCount,
                              Len(failedBranchesSync)>>)
              <=> failedBranchesSync # << >>

\* a finished deletion of four candidates of which two failed
C26_Witness ==
    /\ pc = "done"
    /\ confirmed
    /\ Len(branchesToDelete) = 4
    /\ deletedCount = 2
    /\ Len(FailedLines) = 2

\* checkUntrackedBranches has returned (untracked-only mode)
CheckUntrackedReturned ==
    /\ untrackedOnly
    /\ ~countOnly
    /\ pc \in {"deleteBranches", "askConfirmation", "spawnDelete", "awaitDeletion", "done"}

\* the names of the repository's branches that have no upstream and are
\* neither main, master nor the current branch, in the order of the listing
C28_Untracked ==
    LET kept == SelectSeq(repo, LAMBDA line :
                    Len(line) = 2 /\ line[1] \notin {"main", "master", currentBranch})
    IN  [i \in 1..Len(kept) |-> kept[i][1]]

\* C28: after checkUntrackedBranches, when the listing command gave its
\* output, branchesToDelete is the list of the untracked non-protected branches
\* in listing order and prResults holds one Untracked record per such branch in
\* that order (both are empty when the listing failed); no PR status query was
\* issued.
C28_UntrackedAllDeletable ==
    CheckUntrackedReturned =>
        LET expected == IF listed \in {Null, TIMEOUT} THEN << >> ELSE C28_Untracked
        IN  /\ branchesToDelete = expected
            /\ prResults = [i \in 1..Len(expected) |->
                              [branch |-> expected[i], icon |-> "label",
                               label |-> "Untracked"]]
            /\ \A k \in 1..Len(cmds) : cmds[k][1] # "gh pr view"
            /\ queried = << >>
            /\ \A w \in StatusWorkers : wpc[w] = "idle"

\* an untracked-only run on b1 in a repository where b1 and b2 have no
\* upstream: b2 alone is listed for deletion
C28_Witness ==
    /\ CheckUntrackedReturned
    /\ currentBranch = "b1"
    /\ repo[1] = UntrackedLine("b1")
    /\ branchesToDelete = <<"b2">>
    /\ Len(prResults) = 1

\* the commands of the GitHub CLI
GitHubCommands == {"gh --version", "gh auth status", "gh pr view"}

\* C27: in untracked-only mode and in count-only mode the run issues no
\* GitHub CLI command: no version check, no authentication check, no PR
\* status query.
C27_NoGitHubCommand ==
    (untrackedOnly \/ countOnly) =>
        /\ \A k \in 1..Len(cmds) : cmds[k][1] \notin GitHubCommands
        /\ queried = << >>
        /\ Len(setup) <= 2

\* a count-only run that has printed its summary after the repository check,
\* the current-branch query and the two listings
C27_Witness ==
    /\ countOnly
    /\ ~untrackedOnly
    /\ pc = "counted"
    /\ Len(cmds) = 4

\* getBranches reported a failed listing of the mode
ListingFailed(mode) ==
    \E k \in 1..Len(reports) :
        reports[k] \in {<<"error", "Failed to get branches (timeout)", mode>>,
                        <<"error", "Failed to get branches", mode>>}

\* the names of the repository's branches that are neither main, master nor the
\* current branch, with an upstream (tracked) or without one
C29_Names(tracked) ==
    LET kept == SelectSeq(repo, LAMBDA line :
                    /\ (Len(line) = 3) = tracked
                    /\ line[1] \notin {"main", "master", currentBranch})
    IN  {kept[i][1] : i \in 1..Len(kept)}

\* C29: a count-only run issues no PR status query, no prompt and no delete
\* command; the total it prints is the tracked count plus the untracked count,
\* each count is the length of the list its listing gave (0 for a listing that
\* failed), and when both listings gave their output every branch of the
\* repository that is not protected is counted once, as tracked if it has an
\* upstream and as untracked otherwise.
C29_CountOnly ==
    countOnly =>
        /\ \A k \in 1..Len(cmds) : cmds[k][1] \notin {"gh pr view", "git branch -d"}
        /\ prompts = 0
        /\ answered = "none"
        /\ branchesToDelete = << >>
        /\ prResults = << >>
        /\ pc = "counted" =>
              LET summary == reports[Len(reports)]
              IN  /\ Len(counted) = 2
                  /\ summary = <<"count", Len(counted[1]) + Len(counted[2]),
                                 Len(counted[1]), Len(counted[2])>>
                  /\ ListingFailed("tracked") => counted[1] = << >>
                  /\ ListingFailed("untracked") => counted[2] = << >>
                  /\ (~ListingFailed("tracked") /\ ~ListingFailed("untracked")) =>
                        /\ {counted[1][i] : i \in 1..Len(counted[1])} = C29_Names(TRUE)
                        /\ {counted[2][i] : i \in 1..Len(counted[2])} = C29_Names(FALSE)
                        /\ summary[2] = Cardinality(C29_Names(TRUE) \cup C29_Names(FALSE))
                        /\ summary[3] = Cardinality(C29_Names(TRUE))
                        /\ summary[4] = Cardinality(C29_Names(FALSE))

\* a count-only run on main in a repository with a tracked b1 and an
\* untracked b2: total 2, tracked 1, untracked 1
C29_Witness ==
    /\ countOnly
    /\ pc = "counted"
    /\ reports[Len(reports)] = <<"count", 2, 1, 1>>
    /\ counted = <<<<"b1">>, <<"b2">>>>

\* the tool as bin.js constructs it
NewTool ==
    [dryRun |-> FALSE, verbose |-> FALSE, untrackedOnly |-> FALSE,
     countOnly |-> FALSE, cwd |-> StartDir]

\* the invocation has ended with status 0 and has done nothing but print
C30_EndedWithZero ==
    /\ parseArguments(args, NewTool).ret = "0"
    /\ pc # "start" =>
          /\ pc = "exit"
          /\ exitCode = 0
          /\ cmds = << >>
          /\ setup = << >>
          /\ listed = << >>
          /\ queried = << >>
          /\ prompts = 0
          /\ currentBranch = ""
          /\ reports[Len(reports)] \in {<<"log", "help">>, <<"log", "version">>}

\* C30 as stated: a help or version flag anywhere among the arguments makes
\* parseArguments return 0 and the invocation end with status 0 having done
\* nothing else.
C30_HelpOrVersionAnywhere ==
    (\E i \in 1..Len(args) : args[i] \in HelpVersionFlags) => C30_EndedWithZero

\* the help or version flag at position i is reached: the arguments before it
\* are mode flags, after a first argument that may be a directory the process
\* can change to
C30_Reached(i) ==
    /\ args[i] \in HelpVersionFlags
    /\ \A j \in 1..(i - 1) :
          \/ args[j] \in ModeFlags
          \/ j = 1 /\ args[1][1] = "path" /\ chdir(StartDir, args[1]) # Throws

\* C30 (amended): when the loop of parseArguments reaches a help or version
\* flag, that is when every argument before it is a known mode flag or the
\* leading directory the process could change to, parseArguments returns 0 and
\* the invocation ends with status 0 without checking dependencies, reading the
\* current branch, listing branches, querying PR status, prompting or deleting.
C30_HelpOrVersionReached ==
    (\E i \in 1..Len(args) : C30_Reached(i)) => C30_EndedWithZero

\* an invocation with a directory, a mode flag and then --help, ended
C30_Witness ==
    /\ args = <<Dir("relative", <<"repo">>), Opt("--dry-run"), Opt("--help")>>
    /\ pc = "exit"
    /\ exitCode = 0
    /\ cwd = StartDir \o <<"repo">>

\* the input branches whose query settled with MERGED or CLOSED, in input order
C25_Eligible ==
    LET positions == SelectSeq([i \in 1..Len(branches) |-> i], LAMBDA i :
                         /\ (i - 1) \in DOMAIN settled
                         /\ settled[i - 1] \in {Str("MERGED"), Str("CLOSED")})
    IN  [k \in 1..Len(positions) |-> branches[positions[k]]]

C24_Queries(i) ==
    {k \in 1..Len(cmds) : cmds[k][1] = "gh pr view" /\ cmds[k][2] = branches[i]}

\* C24: every status query is issued for a branch of the input with a timeout
\* of 10000 ms; no branch is ever queried twice; a branch whose query has come
\* back, be it with a state, a timeout or a failure, has been queried once and
\* is never queried again; when checkBranches has returned every branch has
\* been queried exactly once.
C24_QueriedOnce ==
    /\ \A k \in 1..Len(cmds) :
          cmds[k][1] = "gh pr view" =>
              /\ cmds[k][3] = 10000
              /\ \E i \in 1..Len(branches) : cmds[k][2] = branches[i]
    /\ \A i \in 1..Len(branches) :
          /\ Cardinality(C24_Queries(i)) <= 1
          /\ (i - 1) \in DOMAIN queried => Cardinality(C24_Queries(i)) = 1
          /\ CheckBranchesReturned => Cardinality(C24_Queries(i)) = 1

\* a finished check of more branches than workers in which the first query
\* timed out, another failed, and six queries were issued in all
C24_Witness ==
    /\ CheckBranchesReturned
    /\ Len(branches) > CONCURRENCY_LIMIT
    /\ queried[0] = Err("ETIMEDOUT", "SIGTERM", "timed out")
    /\ \E i \in DOMAIN queried : queried[i] = Err("", "", "Command failed")
    /\ Len(SelectSeq(cmds, LAMBDA c : c[1] = "gh pr view")) = Len(branches)

\* checkBranches has returned with every worker through, every branch settled
\* and its result in prResults, and its closing report made
C23_CheckDone ==
    /\ CheckBranchesReturned
    /\ \A w \in StatusWorkers : wpc[w] \in {"idle", "done"}
    /\ DOMAIN settled = 0..(Len(branches) - 1)
    /\ nextIndex = Len(branches)
    /\ Len(prResults) = Len(branches)
    /\ \A i \in 1..Len(prResults) : prResults[i] # Undefined
    /\ Len(CheckBranchesReports) = 1

\* deleteBranches has returned with every worker through, every candidate
\* settled, and the final status reported
C23_DeleteDone ==
    /\ pc = "done"
    /\ \A w \in DeletionWorkers : dpc[w] \in {"idle", "done"}
    /\ nextDeleteIndex = Len(branchesToDeleteCopy)
    /\ \A i \in 1..Len(branchesToDeleteCopy) : branchesToDeleteCopy[i] \in DOMAIN deleteSettled
    /\ \E k \in 1..Len(reports) :
          reports[k] \in {<<"success", "Successfully deleted", deletedCount>>,
                          <<"warning", "Deleted, failed", deletedCount,
                            Len(failedBranchesSync)>>}

\* C23: when every command issued returns, a checkBranches that was entered
\* returns with all workers through, all N branches settled and the results
\* reported, and a deleteBranches that was confirmed returns with all workers
\* through, all candidates settled and the final status reported, also when
\* every unit failed.
C23_BatchesTerminate ==
    /\ (pc = "checkBranches") ~> C23_CheckDone
    /\ (pc = "spawnDelete") ~> C23_DeleteDone

\* a confirmed deletion of more candidates than workers that returned with
\* every candidate failed
C23_Witness ==
    /\ C23_DeleteDone
    /\ confirmed
    /\ Len(branchesToDeleteCopy) > DELETE_CONCURRENCY
    /\ deletedCount = 0
    /\ Len(failedBranchesSync) = Len(branchesToDeleteCopy)

(* ------------------------------------------------------------------ *)
(* C31..C40                                                            *)
(* ------------------------------------------------------------------ *)

\* C33: while a status worker of checkBranches is still running, prResults and
\* branchesToDelete are what they were before the batch (empty, as
\* constructed); once checkBranches has returned from a batch, prResults has
\* one entry per input branch and none of them is undefined.
C33_PublishedAfterJoin ==
    /\ Awaiting # {} => prResults = <<>> /\ branchesToDelete = <<>>
    /\ (CheckBranchesReturned /\ Len(branches) > 0) =>
          /\ Len(prResults) = Len(branches)
          /\ \A i \in 1..Len(prResults) : prResults[i] # Undefined

\* checkBranches has returned from a batch of three in which a query threw and
\* another put its branch on the delete list
C33_Witness ==
    /\ CheckBranchesReturned
    /\ Len(branches) = 3
    /\ \E i \in 1..Len(prResults) : prResults[i] = ErrorResult(branches[i])
    /\ Len(branchesToDelete) > 0

\* the branch is on the published delete list
C35_InList(b) == \E k \in 1..Len(branchesToDelete) : branchesToDelete[k] = b

\* C35: when checkBranches has returned, a branch is in branchesToDelete
\* exactly when its prResults label is Merged or Closed, no branch is in
\* branchesToDelete twice, and a branch whose result is Error is not in it.
C35_DeleteListIsMergedOrClosed ==
    CheckBranchesReturned =>
        /\ \A i \in 1..Len(prResults) :
              /\ C35_InList(prResults[i].branch) <=> prResults[i].label \in {"Merged", "Closed"}
              /\ prResults[i].label = "Error" => ~C35_InList(prResults[i].branch)
        /\ \A k \in 1..Len(branchesToDelete) :
              /\ \E i \in 1..Len(prResults) : prResults[i].branch = branchesToDelete[k]
              /\ \A j \in 1..Len(branchesToDelete) :
                    branchesToDelete[j] = branchesToDelete[k] => j = k

\* checkBranches has returned with one branch closed and on the delete list and
\* the other an Error and off it
C35_Witness ==
    /\ CheckBranchesReturned
    /\ Len(prResults) = 2
    /\ \E i, j \in 1..2 :
          /\ prResults[i].label = "Closed" /\ C35_InList(prResults[i].branch)
          /\ prResults[j].label = "Error" /\ ~C35_InList(prResults[j].branch)

\* C36: in both batches a worker has left its loop only if the shared cursor
\* is at the end of the list: while an index is still unclaimed, no status
\* worker and no deletion worker has exited.
C36_WorkerExitsOnlyAtEnd ==
    /\ (\E w \in StatusWorkers : wpc[w] = "done") => nextIndex >= Len(branches)
    /\ (\E w \in DeletionWorkers : dpc[w] = "done") =>
           nextDeleteIndex >= Len(branchesToDeleteCopy)

\* more branches than status workers: the sixth branch was claimed by a worker
\* that had finished another, one worker has exited and one still waits for
\* its query
C36_Witness ==
    /\ Len(branches) > CONCURRENCY_LIMIT
    /\ \E w, v \in StatusWorkers : wpc[w] = "done" /\ wpc[v] = "await"
    /\ Len(handed) = Len(branches)

\* the directory named by the first argument, resolved against the directory
\* the tool was started in
C31_Target == chdir(StartDir, Head(args))

\* C31: when the first argument names a directory D that exists as seen from
\* the start directory, the run does not fail to change directory, the working
\* directory is D from the return of the entry's parseArguments on, and every
\* git and gh command is issued with D as the working directory.
C31_CommandsRunInD ==
    (args # << >> /\ Head(args)[1] = "path" /\ C31_Target # Throws) =>
        /\ pc # "start" => cwd = C31_Target
        /\ cmds # << >> => cwd = C31_Target
        /\ \A k \in 1..Len(reports) : reports[k][2] # "Failed to change directory to"

C39_SpinnerTimer ==
    pc = "spinner" =>
        /\ spinner.isSpinning <=> spinner.interval # "null"
        /\ spinner.timers = IF spinner.isSpinning THEN 1 ELSE 0
        /\ (callArgs # << >> /\ callArgs[1] = "start" /\ callArgs[2].isSpinning) =>
               /\ spinner.timers = callArgs[2].timers
               /\ spinner = callArgs[2]
        /\ (callArgs # << >> /\ callArgs[1] = "stop" /\ ~callArgs[2].isSpinning) =>
               /\ spinner = callArgs[2]
               /\ callResult = << >>

\* start() has just been called on a spinner that was spinning, after its timer
\* had fired
C39_Witness ==
    /\ pc = "spinner"
    /\ callArgs # << >>
    /\ callArgs[1] = "start"
    /\ callArgs[2].isSpinning
    /\ spinner.current > 0

\* run() has returned, or the process was ended after an error was reported
RunEnded == pc \in {"exit", "end", "done", "counted"}

\* C40: whenever run() has returned or the process was ended after reporting
\* an error, the spinner is stopped: no interval timer is set and the cursor
\* is shown.
C40_SpinnerStoppedAtEnd ==
    RunEnded =>
        /\ ~spinner.isSpinning
        /\ spinner.interval = "null"
        /\ spinner.timers = 0
        /\ spinner.cursor = "shown"

\* a verbose run has deleted a branch and failed to delete another, and
\* deleteBranches has printed its final status
C40_Witness ==
    /\ pc = "done"
    /\ verbose
    /\ deletedCount > 0
    /\ Len(failedBranchesSync) > 0
    /\ ~spinner.isSpinning

\* the command line without its verbose options
C37_Quiet(argv) == SelectSeq(argv, LAMBDA a : a \notin {Opt("--verbose"), Opt("-v")})

\* the record that the status a query settled with gives its branch
C37_Record(branch, prStatus) ==
    IF prStatus = Throws
    THEN [branch |-> branch, icon |-> "warning", label |-> "Error"]
    ELSE [branch |-> branch, icon |-> Classify(prStatus).icon,
          label |-> Classify(prStatus).label]

\* the mode flags are those of the command line without its verbose options
C37_Flags ==
    pc # "start" =>
        LET quiet == parseArguments(C37_Quiet(args), NewTool).tool
        IN  /\ dryRun = quiet.dryRun
            /\ untrackedOnly = quiet.untrackedOnly
            /\ countOnly = quiet.countOnly

\* the published results are given by the listing and by what each query
\* settled with
C37_Results ==
    CheckBranchesReturned =>
        prResults = [i \in 1..Len(branches) |-> C37_Record(branches[i], settled[i - 1])]

\* the delete commands are the head of the delete list, and at the end of the
\* run all of it after a yes outside a dry run, else none
C37_Deletes ==
    /\ Len(DeleteCommands) <= Len(branchesToDelete)
    /\ DeleteCommands = SubSeq(branchesToDelete, 1, Len(DeleteCommands))
    /\ pc = "done" =>
          DeleteCommands = IF ~dryRun /\ answered = "yes" THEN branchesToDelete ELSE << >>

\* a query that settles puts its branch at the end of the delete list exactly
\* when it settled with MERGED or CLOSED, and the list published is that list
C37_Step ==
    /\ \A i \in (DOMAIN settled') \ (DOMAIN settled) :
          branchesToDeleteSync' =
              IF settled'[i] \in {Str("MERGED"), Str("CLOSED")}
              THEN Append(branchesToDeleteSync, branches[i + 1])
              ELSE branchesToDeleteSync
    /\ (~untrackedOnly /\ branchesToDelete' # branchesToDelete) =>
          branchesToDelete' = branchesToDeleteSync

\* C37: verbose on or off, the mode flags, prResults, branchesToDelete and the
\* delete commands are the same functions of the command line without its
\* verbose options, the listing, the status each query settled with, the
\* order in which the queries settled and the answer to the prompt; the
\* verbose flag is not among what they depend on, so two runs that differ
\* in it only produce the same results, delete list and delete commands.
C37_VerboseHasNoEffect ==
    /\ [](C37_Flags /\ C37_Results /\ C37_Deletes)
    /\ [][C37_Step]_vars

\* a verbose run has ended after the debug line of the catch block was
\* printed for one branch and the other branch was deleted
C37_Witness ==
    /\ verbose
    /\ pc = "done"
    /\ Len(prResults) = 2
    /\ \E i \in 1..2 : prResults[i].label = "Error"
    /\ Len(DeleteCommands) = 1

====
